---- MODULE Spec2Model ----
(***************************************************************************)
(* A model of smallchat's session/agent execution engine:                  *)
(*   - Session (src/session.py): the append-only event log, the message-id *)
(*     counter, the agent-id registry and Session.load (replay);           *)
(*   - Agent, World and SmartHook (src/agent.py): harken, the response     *)
(*     loop, the task / discuss / hook tools and the response-acceptance   *)
(*     hook;                                                               *)
(*   - interact (src/smallchat.py): the end-user prompt loop;              *)
(*   - main, agentic_loop, invoke_tool and handle_agent_callback           *)
(*     (src/mini_agent.py): the second engine of the repository, whose     *)
(*     transcript is a list of user and assistant items mirrored in a      *)
(*     transcript file.                                                    *)
(* A behaviour is a run of one of the two programs; the variables of the   *)
(* other one stay as they start.                                           *)
(* The engine runs on one asyncio thread and never spawns tasks, so the    *)
(* coroutine call chain is modelled as a stack of frames; one action is    *)
(* the code that runs between two awaited calls of the language model.     *)
(***************************************************************************)
EXTENDS Integers, Sequences, FiniteSets, TLC

(* Bounds of the exploration: the prompts the end user types, and the tool *)
(* calls the language model requests, over a run.                          *)
MaxPrompts == 2
MaxCalls == 2

(* The hooks registered for one event.                                     *)
MaxHooks == 2

(* The Agent objects of a session whose agents are created one by one.     *)
MaxAgents == 4

(* handle_bash_callback: MAX_OUTPUT, counted in chunks read.               *)
MaxOutputChunks == 2

(* try_repeatedly: the failures in a row of the operation.                 *)
MaxAttempts == 8

(* The records appended to the log file while the viewer watches it.       *)
MaxRecords == 2

(* The calls of file tools and the modifications by others, together.      *)
MaxFileCalls == 3

VARIABLES
    logfile,          \* the records of the log file, in file order
    next_message_id,  \* Session.next_message_id
    agent_id,         \* Session.agent_id, restricted to Agent objects (the 'user' key is fixed)
    interlocutor,     \* Session.interlocutor (an Agent object)
    nagents,          \* Agent objects constructed by this process: 1..nagents
    transcript,       \* Agent.transcript, per agent
    subagents,        \* Agent.subagents, per agent: an insertion-ordered dict name -> Agent
    hooks,            \* Agent.hooks, per agent: a list of SmartHook (its internal agent, its prompt)
    attrs,            \* per agent: the speakers / listeners attributes set by discuss, and the
                      \* SmartHook an agent is the internal agent of (monitored agent, _denied)
    stack,            \* the chain of suspended Agent.response coroutines, innermost last
    mode,             \* "input": interact waits at input(); "running"; "crashed": an exception left
                      \* asyncio.run; "off": smallchat is not the program run
    exc,              \* the exception that ended the process, and the tool call that raised it
    returned,         \* history: every value an Agent.response call has returned
    verdicts,         \* history: every verdict of SmartHook.comment_on_last_response
    envs,             \* mini_agent: the Env objects (transcript, transcript_file), the main one first
    loops,            \* mini_agent: the chain of suspended agentic_loop coroutines, innermost last
    mini,             \* mini_agent: "off": not the program run; "input": main waits at input(); "running"
    hooked,           \* mini_agent: the call of hooks that user_prompt_hook made last (the
                      \* event, the hook input, the hooks' outputs and what combine made of
                      \* them), until the model answers
    events,           \* mini_agent, history: the hooks run and the tools called by invoke_tool
    prompts,          \* what the end user has typed so far: the number of prompts
    calls,            \* what the language model has asked for so far: the number of tool calls
    in_plan_mode,     \* core_tools.in_plan_mode
    callback,         \* the coroutine of handle_plan_callback or handle_bash_callback: its
                      \* arguments, where it stands, its locals and what it has returned
    process,          \* the shell started by handle_bash_callback: whether it runs, its
                      \* return code, whether a descendant of it holds the write ends of
                      \* its pipes, and (history) the signals sent to it
    retrying,         \* the coroutine of utils.try_repeatedly: where it stands, attempt,
                      \* and (history) the calls made and the delays slept
    files,            \* the working directory: the content of each file that exists
    known_content_files,  \* core_tools.known_content_files (its keys)
    stale_content_files,  \* core_tools.stale_content_files
    observer,         \* the file-system events the watchdog thread has yet to deliver
    file_call,        \* the call of a file tool under way: its arguments and where it stands
    file_calls,       \* history: the calls of file tools that have returned and the
                      \* modifications made by others, in order
    disk,             \* the log file as a concurrent reader sees it: the bytes that have
                      \* reached the file, and the rest of the write under way
    watch             \* server.watch_session_file: last_position and (history) the events
                      \* it has broadcast

vars == <<logfile, next_message_id, agent_id, interlocutor, nagents, transcript,
          subagents, hooks, attrs, stack, mode, exc, returned, verdicts, envs, loops, mini,
          hooked, events, prompts, calls, in_plan_mode, callback, process, retrying, files,
          known_content_files, stale_content_files, observer, file_call, file_calls,
          disk, watch>>

(* The variables of smallchat (session, agents, interact) and of           *)
(* mini_agent.                                                             *)
smallchat == <<logfile, next_message_id, agent_id, interlocutor, nagents, transcript,
               subagents, hooks, attrs, stack, mode, exc, returned, verdicts>>
mini_agent == <<envs, loops, mini, hooked, events>>
inputs == <<prompts, calls>>

(* The variables of the programs around the two engines: the tools of      *)
(* core_tools and the handlers of the work they delegate (mini_agent).     *)
tooling == <<in_plan_mode, callback, process, retrying, files, known_content_files,
             stale_content_files, observer, file_call, file_calls, disk, watch>>

-----------------------------------------------------------------------------
(* Values *)

User == 0                       \* the key 'user' of Session.agent_id
Names == {"a", "b"}             \* names the model gives to subagents in task
Model == "m"                    \* args.model
Utterance == "u"                \* the text of a model turn
NoCause == [list |-> FALSE, ids |-> <<>>]

(* A cause is a string ("12.t1", "user") or a list of strings.              *)
CauseStr(s) == [list |-> FALSE, ids |-> <<s>>]
CauseList(ids) == [list |-> TRUE, ids |-> ids]

(* str, TrackedString(s, message_id) and StringWithCause(s, cause): kind is *)
(* the class of the value, which the isinstance tests read.                 *)
Str(s) == [s |-> s, kind |-> "str", message_id |-> "", cause |-> NoCause]
TrackedString(s, message_id) ==
    [s |-> s, kind |-> "tracked", message_id |-> message_id, cause |-> NoCause]
StringWithCause(s, cause) ==
    [s |-> s, kind |-> "caused", message_id |-> "", cause |-> cause]

(* A dict entry that is present only when the value is not None.           *)
Opt(k, present, v) == IF present THEN k :> v ELSE <<>>

(* int(msg_id) and msg_id.isdigit() for the ids str() produces.            *)
Ids == 0..(16 * (MaxPrompts + MaxCalls))
IdString == [n \in Ids |-> ToString(n)]
IdStrings == {IdString[n] : n \in Ids}
IsDigit(s) == s \in IdStrings
IdNumber == [s \in IdStrings |-> CHOOSE n \in Ids : IdString[n] = s]
ToInt(s) == IdNumber[s]

Last(seq) == seq[Len(seq)]

(* None of the programs around the engines is run.                         *)
NoCallback == [kind |-> "", pc |-> "off"]
NoProcess == [alive |-> FALSE, returncode |-> 0, holder |-> FALSE, signals |-> <<>>]
CallbacksOff ==
    /\ in_plan_mode = FALSE
    /\ callback = NoCallback
    /\ process = NoProcess
RetryingOff ==
    retrying = [pc |-> "off"]
FileToolsOff ==
    /\ files = <<>>
    /\ known_content_files = {}
    /\ stale_content_files = {}
    /\ observer = <<>>
    /\ file_call = [name |-> "", pc |-> "off"]
    /\ file_calls = <<>>
ViewerOff ==
    /\ disk = [visible |-> <<>>, pending |-> <<>>]
    /\ watch = [last_position |-> 0, broadcast |-> <<>>, running |-> FALSE]
ToolingOff ==
    /\ CallbacksOff
    /\ RetryingOff
    /\ FileToolsOff
    /\ ViewerOff

(* mini_agent: no hooks have been called yet.                              *)
NoHooks == [event |-> "", input |-> <<>>, outputs |-> <<>>, combined |-> <<>>]

RECURSIVE SumSeq(_)
SumSeq(ns) == IF ns = <<>> THEN 0 ELSE Head(ns) + SumSeq(Tail(ns))

RECURSIVE SeqMax(_)
SeqMax(ns) == IF ns = <<>> THEN -1
              ELSE LET m == SeqMax(Tail(ns)) IN IF Head(ns) > m THEN Head(ns) ELSE m

-----------------------------------------------------------------------------
(* The mutable state the methods work on, as one record, so that a method *)
(* is a function from state to state and an action can chain them.         *)
Cur == [logfile |-> logfile, next_message_id |-> next_message_id, agent_id |-> agent_id,
        interlocutor |-> interlocutor, nagents |-> nagents, transcript |-> transcript,
        subagents |-> subagents, hooks |-> hooks, attrs |-> attrs, raised |-> ""]

Commit(S) ==
    /\ logfile' = S.logfile
    /\ next_message_id' = S.next_message_id
    /\ agent_id' = S.agent_id
    /\ interlocutor' = S.interlocutor
    /\ nagents' = S.nagents
    /\ transcript' = S.transcript
    /\ subagents' = S.subagents
    /\ hooks' = S.hooks
    /\ attrs' = S.attrs

-----------------------------------------------------------------------------
(* Session *)

TRANSCRIPT_ENTRY == {"event_type", "agent", "role", "content"}
TOOL_USE_ENTRY == {"event_type", "agent", "role", "tool_call", "tool_call_id", "name"}
FRAGMENT == {"event_type", "agent", "content", "cause"}
AGENT_CREATED == {"event_type", "agent", "name", "parent", "cause", "language_model"}

AgentIdOf(S, agent) == IF agent = User THEN "user" ELSE S.agent_id[agent]

(* Session._write. log holds the keys whose value is not None, nones the   *)
(* keys whose value is None: the assertion counts both, the file gets the  *)
(* first only. The message id is the counter as a string.                  *)
WriteNoIncrement(S, log, nones, required) ==
    [S EXCEPT !.logfile = Append(@, ("message_id" :> ToString(S.next_message_id)) @@ log)]

Write(S, log, nones, required) ==
    IF ~(required \subseteq (DOMAIN log \cup nones))
    THEN [S EXCEPT !.raised = "AssertionError"]
    ELSE [S EXCEPT !.logfile = Append(@, ("message_id" :> ToString(S.next_message_id)) @@ log),
                   !.next_message_id = @ + 1]

(* A variant that differs from the code: the id of the record to be        *)
(* written next.                                                           *)
NextMsgId(S) == ToString(S.next_message_id)

(* The id _write returned to the caller that wrote last.                   *)
LastMsgId(S) == Last(S.logfile).message_id

(* Session.log_transcript_entry(agent, **kwargs) *)
LogTranscriptEntry(S, agent, kwargs, nones) ==
    Write(S, [event_type |-> "transcript_entry", agent |-> AgentIdOf(S, agent)] @@ kwargs,
          nones, TRANSCRIPT_ENTRY)

(* Session.log_tool_use(agent, **kwargs) *)
LogToolUse(S, agent, kwargs, nones) ==
    Write(S, [event_type |-> "transcript_entry", agent |-> AgentIdOf(S, agent)] @@ kwargs,
          nones, TOOL_USE_ENTRY)

(* Session.logged_fragment(agent, content, cause=...): the fragment is the *)
(* TrackedString(content, LastMsgId) of the state it returns.              *)
LoggedFragment(S, agent, content, cause) ==
    Write(S, [event_type |-> "fragment", agent |-> AgentIdOf(S, agent), content |-> content,
              cause |-> cause], {}, FRAGMENT)

(* base_name.lower(), every character that is not alphanumeric or '_'      *)
(* replaced by '_', then strip('_'): by table, for the names in use.       *)
BaseAgentId(base_name) ==
    CASE base_name = "Primary" -> "primary"
      [] base_name = "hook_" -> "hook"
      [] base_name = "A_" -> "a"
      [] base_name = "User" -> "user"
      [] OTHER -> base_name

(* Session._make_agent_id: the first of base, base1, base2, ... that is    *)
(* not a value of the registry (whose values include 'user').              *)
RegistryValues(S) == {"user"} \cup {S.agent_id[a] : a \in DOMAIN S.agent_id}

FreeAgentIdOnce(S, base, i) ==
    IF base \in RegistryValues(S) THEN base \o "1" ELSE base

RECURSIVE FreeAgentId(_, _, _)
FreeAgentId(S, base, i) ==
    LET cand == IF i = 0 THEN base ELSE base \o ToString(i)
    IN IF cand \in RegistryValues(S) THEN FreeAgentId(S, base, i + 1) ELSE cand

MakeAgentId(S, agent, base_name) ==
    [S EXCEPT !.agent_id = (agent :> FreeAgentId(S, BaseAgentId(base_name), 0)) @@ @]

(* Session.log_agent_created(agent, name, parent, cause=..., role=...)     *)
LogAgentCreated(S, agent, name, parent, cause, role) ==
    LET S1 == IF parent = User THEN [S EXCEPT !.interlocutor = agent] ELSE S
        S2 == MakeAgentId(S1, agent, name)
    IN Write(S2, [event_type |-> "agent_created", agent |-> S2.agent_id[agent], name |-> name,
                  parent |-> AgentIdOf(S2, parent), language_model |-> Model,
                  cause |-> cause, role |-> role], {}, AGENT_CREATED)

-----------------------------------------------------------------------------
(* Agent *)

NoAttrs == [has_speakers |-> FALSE, speakers |-> <<>>, has_listeners |-> FALSE,
            listeners |-> <<>>, monitored |-> 0, denied |-> ""]

(* Agent.__init__: a new object with an empty transcript, no subagents and *)
(* no hooks. The new agent is S.nagents of the state returned.             *)
NewAgent(S) ==
    LET a == S.nagents + 1
    IN [S EXCEPT !.nagents = a,
                 !.transcript = (a :> <<>>) @@ @,
                 !.subagents = (a :> <<>>) @@ @,
                 !.hooks = (a :> <<>>) @@ @,
                 !.attrs = (a :> NoAttrs) @@ @]

(* Agent.harken(input): input is a string (role user) or a dict with role, *)
(* content and further keys (extra). The entry goes to the transcript and  *)
(* to the log, with substance for a TrackedString and cause for a          *)
(* StringWithCause.                                                        *)
HarkenBoth(S, agent, role, content, extra) ==
    LET m == [role |-> role, content |-> content.s] @@ extra
        S1 == [S EXCEPT !.transcript[agent] = Append(@, m)]
    IN LogTranscriptEntry(S1, agent,
           m @@ Opt("substance", content.kind = "tracked", content.message_id)
             @@ Opt("cause", content.kind # "str",
                    IF content.kind = "tracked" THEN CauseStr(content.message_id) ELSE content.cause),
           {})

Harken(S, agent, role, content, extra) ==
    LET m == [role |-> role, content |-> content.s] @@ extra
        S1 == [S EXCEPT !.transcript[agent] = Append(@, m)]
    IN LogTranscriptEntry(S1, agent,
           m @@ Opt("substance", content.kind = "tracked", content.message_id)
             @@ Opt("cause", content.kind = "caused", content.cause),
           (IF content.kind = "tracked" THEN {} ELSE {"substance"})
             \cup (IF content.kind = "caused" THEN {} ELSE {"cause"}))

(* The assertion of Agent.response: a message whose role is not system.    *)
CanRespondAlways(S, agent) == TRUE
CanRespond(S, agent) == \E i \in 1..Len(S.transcript[agent]) : S.transcript[agent][i].role # "system"

-----------------------------------------------------------------------------
(* Insertion-ordered dicts (Agent.subagents): a sequence of <<key, value>> *)
DictKeys(d) == [i \in 1..Len(d) |-> d[i][1]]
DictHas(d, k) == \E i \in 1..Len(d) : d[i][1] = k
DictGet(d, k) == d[CHOOSE i \in 1..Len(d) : d[i][1] = k][2]
DictSet(d, k, v) ==
    IF DictHas(d, k) THEN [i \in 1..Len(d) |-> IF d[i][1] = k THEN <<k, v>> ELSE d[i]]
    ELSE Append(d, <<k, v>>)

RECURSIVE Join(_, _)
Join(strs, sep) ==
    IF strs = <<>> THEN ""
    ELSE IF Len(strs) = 1 THEN strs[1]
    ELSE strs[1] \o sep \o Join(Tail(strs), sep)

-----------------------------------------------------------------------------
(* Frames of Agent.response: the agent, where the coroutine stands (pc),   *)
(* and its locals: msg_id and content of the latest assistant turn, the    *)
(* tool calls of that turn still to run (the first one is running), the    *)
(* index of the hook being consulted; for a running discuss, the replies   *)
(* so far and the index of the speaker; for a running hook,                *)
(* _original_transcript_length.                                            *)
Frame(agent) == [agent |-> agent, pc |-> "completion", msg_id |-> "", content |-> "",
                 calls |-> <<>>, hk |-> 0, orig |-> 0, dres |-> <<>>, di |-> 0]

Top == stack[Len(stack)]
Caller == stack[Len(stack) - 1]
SetTop(f) == [stack EXCEPT ![Len(stack)] = f]
Pop == SubSeq(stack, 1, Len(stack) - 1)

Running(pc) == mode = "running" /\ stack # <<>> /\ Top.pc = pc
Calling(name) == Running("tools") /\ Top.calls # <<>> /\ Head(Top.calls).name = name

(* self._current_tool_call = f"{msg_id}.{t.id}" *)
CurrentToolCall(f) == f.msg_id \o "." \o Head(f.calls).id

(* The tools World offers the model: task, discuss, hook, and for the      *)
(* internal agent of a SmartHook also reject and read_log (with_tools).    *)
WorldTools(agent) ==
    {"task", "discuss", "hook"}
        \cup (IF attrs[agent].monitored # 0 THEN {"reject", "read_log"} ELSE {})

(* The tool-call lists a model turn may carry: one request, or a task      *)
(* followed by a second request, with ids unique within the turn. The      *)
(* arguments are drawn when the call runs.                                 *)
Batches(agent) ==
    {<<[id |-> "t1", name |-> n]>> : n \in WorldTools(agent)}
        \cup {<<[id |-> "t1", name |-> "task"], [id |-> "t2", name |-> k]>> :
                 k \in WorldTools(agent)}

-----------------------------------------------------------------------------
(* Init: get_session for a new session (src/smallchat.py): a Session, one *)
(* Agent, and its agent_created record with parent 'user'.                 *)
Empty == [logfile |-> <<>>, next_message_id |-> 0, agent_id |-> <<>>, interlocutor |-> 0,
          nagents |-> 0, transcript |-> <<>>, subagents |-> <<>>, hooks |-> <<>>,
          attrs |-> <<>>, raised |-> ""]

NewSession ==
    LET S1 == NewAgent(Empty)
    IN LogAgentCreated(S1, S1.nagents, "Primary", User, CauseStr("user"), "primary")

InitSmallchat ==
    /\ logfile = NewSession.logfile
    /\ next_message_id = NewSession.next_message_id
    /\ agent_id = NewSession.agent_id
    /\ interlocutor = NewSession.interlocutor
    /\ nagents = NewSession.nagents
    /\ transcript = NewSession.transcript
    /\ subagents = NewSession.subagents
    /\ hooks = NewSession.hooks
    /\ attrs = NewSession.attrs
    /\ stack = <<>>
    /\ mode = "input"
    /\ exc = [error |-> "", call |-> "", agent |-> 0]
    /\ returned = {}
    /\ verdicts = {}
    /\ envs = <<>>
    /\ loops = <<>>
    /\ mini = "off"
    /\ hooked = NoHooks
    /\ events = <<>>
    /\ prompts = 0
    /\ calls = 0
    /\ ToolingOff

-----------------------------------------------------------------------------
(* interact (src/smallchat.py): the end user's prompt is logged as a       *)
(* fragment of 'user' and given to the interlocutor's response, which      *)
(* harkens it and runs up to its first call of the language model.         *)
Interact ==
    /\ UNCHANGED tooling
    /\ UNCHANGED mini_agent
    /\ mode = "input"
    /\ prompts < MaxPrompts
    /\ prompts' = prompts + 1
    /\ UNCHANGED calls
    /\ LET S1 == LoggedFragment(Cur, User, "hello", CauseStr("user"))
           S2 == Harken(S1, S1.interlocutor, "user", TrackedString("hello", LastMsgId(S1)), <<>>)
       IN /\ Commit(S2)
          /\ stack' = <<Frame(S2.interlocutor)>>
          /\ mode' = "running"
    /\ UNCHANGED <<exc, returned, verdicts>>

(* Agent.response, lines 66-69: the model's turn is appended to the        *)
(* transcript and logged with neither substance nor cause.                 *)
Assistant(S, f, tool_calls) ==
    LET res == [role |-> "assistant", content |-> Utterance]
                   @@ Opt("tool_calls", tool_calls # <<>>, tool_calls)
        S1 == [S EXCEPT !.transcript[f.agent] = Append(@, res)]
    IN LogTranscriptEntry(S1, f.agent, res, IF tool_calls = <<>> THEN {"tool_calls"} ELSE {})

(* The model answers with text only: an utterance; the hooks are next.     *)
CompletionUtterance ==
    /\ UNCHANGED tooling
    /\ UNCHANGED inputs
    /\ UNCHANGED mini_agent
    /\ Running("completion")
    /\ LET S1 == Assistant(Cur, Top, <<>>)
       IN /\ Commit(S1)
          /\ stack' = SetTop([Top EXCEPT !.msg_id = LastMsgId(S1), !.content = Utterance,
                                         !.calls = <<>>, !.pc = "hooks", !.hk = 1])
    /\ UNCHANGED <<mode, exc, returned, verdicts>>

(* The model answers with tool-call requests.                              *)
CompletionToolCalls ==
    /\ UNCHANGED tooling
    /\ UNCHANGED prompts
    /\ UNCHANGED mini_agent
    /\ Running("completion")
    /\ \E tool_calls \in Batches(Top.agent) :
          LET S1 == Assistant(Cur, Top, tool_calls)
          IN /\ calls + Len(tool_calls) <= MaxCalls
             /\ calls' = calls + Len(tool_calls)
             /\ Commit(S1)
             /\ stack' = SetTop([Top EXCEPT !.msg_id = LastMsgId(S1), !.content = Utterance,
                                            !.calls = tool_calls, !.pc = "tools"])
    /\ UNCHANGED <<mode, exc, returned, verdicts>>

(* Agent.response, lines 79-88: the result of the running tool call goes   *)
(* to the transcript and to the log (log_tool_use).                        *)
(* A variant that differs from the code: tool_call names the latest log    *)
(* record.                                                                 *)
ToolResultSelfCall(S, f, res) ==
    LET t == Head(f.calls)
        m == [role |-> "tool", tool_call_id |-> t.id, name |-> t.name, content |-> res.s]
        S1 == [S EXCEPT !.transcript[f.agent] = Append(@, m)]
    IN LogToolUse(S1, f.agent,
           m @@ [tool_call |-> LastMsgId(S)]
             @@ Opt("substance", res.kind = "tracked", res.message_id)
             @@ Opt("cause", res.kind = "caused", res.cause),
           (IF res.kind = "tracked" THEN {} ELSE {"substance"})
             \cup (IF res.kind = "caused" THEN {} ELSE {"cause"}))

ToolResult(S, f, res) ==
    LET t == Head(f.calls)
        m == [role |-> "tool", tool_call_id |-> t.id, name |-> t.name, content |-> res.s]
        S1 == [S EXCEPT !.transcript[f.agent] = Append(@, m)]
    IN LogToolUse(S1, f.agent,
           m @@ [tool_call |-> f.msg_id]
             @@ Opt("substance", res.kind = "tracked", res.message_id)
             @@ Opt("cause", res.kind = "caused", res.cause),
           (IF res.kind = "tracked" THEN {} ELSE {"substance"})
             \cup (IF res.kind = "caused" THEN {} ELSE {"cause"}))

(* The for loop of line 75 moves to the next request, or `continue`s to    *)
(* the next call of the model.                                             *)
AfterTool(f) == [f EXCEPT !.calls = Tail(@),
                          !.pc = IF Tail(f.calls) = <<>> THEN "completion" ELSE "tools"]

(* An exception raised in a tool: nothing in World.do_action, in           *)
(* Agent.response or in interact catches it, so it leaves asyncio.run.     *)
Raise(error) ==
    /\ mode' = "crashed"
    /\ exc' = [error |-> error, call |-> CurrentToolCall(Top), agent |-> Top.agent]
    /\ stack' = <<>>

(* World.do_action: json.loads of malformed arguments, or the call of   *)
(* the tool with arguments that do not fit its parameters, raises.         *)
ToolMalformed ==
    /\ UNCHANGED tooling
    /\ UNCHANGED inputs
    /\ UNCHANGED mini_agent
    /\ Running("tools")
    /\ Raise("TypeError")
    /\ UNCHANGED <<logfile, next_message_id, agent_id, interlocutor, nagents, transcript,
                   subagents, hooks, attrs, returned, verdicts>>

(* Agent.task with a name already in use.                                  *)
ToolTaskInUse ==
    /\ UNCHANGED tooling
    /\ UNCHANGED inputs
    /\ UNCHANGED mini_agent
    /\ Calling("task")
    /\ \E name \in Names : DictHas(subagents[Top.agent], name)
    /\ Raise("ValueError")
    /\ UNCHANGED <<logfile, next_message_id, agent_id, interlocutor, nagents, transcript,
                   subagents, hooks, attrs, returned, verdicts>>

(* Agent.task, lines 149-154: the subagent is created, registered, logged  *)
(* and given its system prompt. The new agent is S.nagents of the result.  *)
TaskCreate(S, f, name) ==
    LET S1 == NewAgent(S)
        S2 == [S1 EXCEPT !.subagents[f.agent] = DictSet(@, name, S1.nagents)]
        S3 == LogAgentCreated(S2, S1.nagents, name, f.agent, CauseStr(CurrentToolCall(f)), "child")
    IN Harken(S3, S1.nagents, "system",
              StringWithCause("sys", CauseList(<<CurrentToolCall(f)>>)), <<>>)

(* json.dumps({'subagents': [...], 'status': "Created subagent: name"})    *)
TaskStatus(S, agent, name) ==
    "{subagents: [" \o Join(DictKeys(S.subagents[agent]), ", ")
        \o "], status: Created subagent: " \o name \o "}"

(* Agent.task without user_prompt: returns the status text.                *)
ToolTask ==
    /\ UNCHANGED tooling
    /\ UNCHANGED inputs
    /\ UNCHANGED mini_agent
    /\ Calling("task")
    /\ \E name \in Names :
          /\ ~DictHas(subagents[Top.agent], name)
          /\ LET S1 == TaskCreate(Cur, Top, name)
                 S2 == ToolResult(S1, Top, Str(TaskStatus(S1, Top.agent, name)))
             IN /\ Commit(S2)
                /\ stack' = SetTop(AfterTool(Top))
    /\ UNCHANGED <<mode, exc, returned, verdicts>>

(* Agent.task with user_prompt: the prompt is logged as a fragment of the  *)
(* parent and the subagent's response to it is awaited.                    *)
ToolTaskPrompt ==
    /\ UNCHANGED tooling
    /\ UNCHANGED inputs
    /\ UNCHANGED mini_agent
    /\ Calling("task")
    /\ \E name \in Names :
          /\ ~DictHas(subagents[Top.agent], name)
          /\ LET S1 == TaskCreate(Cur, Top, name)
                 S2 == LoggedFragment(S1, Top.agent, "q", CauseStr(CurrentToolCall(Top)))
                 S3 == Harken(S2, S1.nagents, "user", TrackedString("q", LastMsgId(S2)), <<>>)
             IN /\ Commit(S3)
                /\ stack' = Append(SetTop([Top EXCEPT !.pc = "await_task"]), Frame(S1.nagents))
    /\ UNCHANGED <<mode, exc, returned, verdicts>>

(* A variant that differs from the code: the hook's agent is given its     *)
(* system prompt before its agent_created record is written.               *)
ToolHookLate ==
    /\ UNCHANGED tooling
    /\ UNCHANGED inputs
    /\ UNCHANGED mini_agent
    /\ Calling("hook")
    /\ LET S1 == NewAgent(Cur)
           a == S1.nagents
           S2 == [S1 EXCEPT !.attrs[a].monitored = Top.agent]
           S3 == MakeAgentId(S2, a, "hook_")
           S4 == Harken(S3, a, "system", Str("SmartHook.SYSTEM"), <<>>)
           S5 == Write(S4, [event_type |-> "agent_created", agent |-> S4.agent_id[a],
                            name |-> "hook_", parent |-> AgentIdOf(S4, Top.agent),
                            language_model |-> Model,
                            cause |-> CauseStr(CurrentToolCall(Top)), role |-> "hook"],
                       {}, AGENT_CREATED)
           S6 == [S5 EXCEPT !.hooks[Top.agent] = Append(@, [internal |-> a, prompt |-> "policy"])]
           S7 == ToolResult(S6, Top, Str("None"))
       IN /\ Commit(S7)
          /\ stack' = SetTop(AfterTool(Top))
    /\ UNCHANGED <<mode, exc, returned, verdicts>>

(* Agent.hook: a SmartHook with a new internal agent is attached; the tool *)
(* returns None, whose str is the content of the tool result.              *)
ToolHook ==
    /\ UNCHANGED tooling
    /\ UNCHANGED inputs
    /\ UNCHANGED mini_agent
    /\ Calling("hook")
    /\ LET S1 == NewAgent(Cur)
           a == S1.nagents
           S2 == [S1 EXCEPT !.attrs[a].monitored = Top.agent]
           S3 == LogAgentCreated(S2, a, "hook_", Top.agent, CauseStr(CurrentToolCall(Top)), "hook")
           S4 == [S3 EXCEPT !.hooks[Top.agent] = Append(@, [internal |-> a, prompt |-> "policy"])]
           S5 == Harken(S4, a, "system", Str("SmartHook.SYSTEM"), <<>>)
           S6 == ToolResult(S5, Top, Str("None"))
       IN /\ Commit(S6)
          /\ stack' = SetTop(AfterTool(Top))
    /\ UNCHANGED <<mode, exc, returned, verdicts>>

(* SmartHook.reject(reason), a tool of the hook's internal agent.          *)
ToolReject ==
    /\ UNCHANGED tooling
    /\ UNCHANGED inputs
    /\ UNCHANGED mini_agent
    /\ Calling("reject")
    /\ LET S1 == [Cur EXCEPT !.attrs[Top.agent].denied = "bad"]
           S2 == ToolResult(S1, Top, Str("response status: denied"))
       IN /\ Commit(S2)
          /\ stack' = SetTop(AfterTool(Top))
    /\ UNCHANGED <<mode, exc, returned, verdicts>>

(* Agent.recall(n) for n = -1, as the JSON text read_log returns: the last *)
(* user entry that is not a <system> note, and the last utterance after it.*)
IsRequest(m) == m.role = "user" /\ m.content \notin {"<system>bad</system>"}
IsUtterance(m) == m.role = "assistant" /\ "tool_calls" \notin DOMAIN m
RecallLast(tr) ==
    LET reqs == {i \in 1..Len(tr) : IsRequest(tr[i])}
        i == CHOOSE k \in reqs : \A j \in reqs : j <= k
        resps == {j \in (i + 1)..Len(tr) : IsUtterance(tr[j])}
        resp == IF resps = {} THEN "null"
                ELSE tr[CHOOSE k \in resps : \A j \in resps : j <= k].content
    IN "{request: " \o tr[i].content \o ", response: " \o resp \o ", n: -1}"

(* SmartHook.read_log(-1), called as a tool by the hook's internal agent.  *)
ToolReadLog ==
    /\ UNCHANGED tooling
    /\ UNCHANGED inputs
    /\ UNCHANGED mini_agent
    /\ Calling("read_log")
    /\ LET S1 == ToolResult(Cur, Top, Str(RecallLast(transcript[attrs[Top.agent].monitored])))
       IN /\ Commit(S1)
          /\ stack' = SetTop(AfterTool(Top))
    /\ UNCHANGED <<mode, exc, returned, verdicts>>

-----------------------------------------------------------------------------
(* Agent.discuss *)

(* The lists of names the model may give as speakers or as listeners:      *)
(* given is FALSE for None.                                                *)
None == [given |-> FALSE, v |-> <<>>]
List(l) == [given |-> TRUE, v |-> l]
SpeakersArgs == {None, List(<<>>), List(<<"a">>), List(<<"b">>), List(<<"a", "b">>)}
ListenersArgs == {None, List(<<"a">>), List(<<"b">>)}

InSeq(x, seq) == \E i \in 1..Len(seq) : seq[i] = x

(* Lines 172-195, the book-keeping of speakers and listeners, one stage    *)
(* after the other; raised names the exception of the stage that failed,   *)
(* and the attributes keep what the earlier stages assigned.               *)
DiscussSpeakers(S, agent, speakers) ==
    LET IsSub(n) == DictHas(S.subagents[agent], n)
        at == S.attrs[agent]
        S1 == [S EXCEPT !.attrs[agent].has_speakers = TRUE,
                        !.attrs[agent].speakers =
                            IF at.has_speakers THEN SelectSeq(at.speakers, IsSub)
                            ELSE DictKeys(S.subagents[agent])]
    IN IF ~speakers.given THEN S1
       ELSE IF \E i \in 1..Len(speakers.v) : ~IsSub(speakers.v[i])
            THEN [S1 EXCEPT !.raised = "KeyError"]
            ELSE [S1 EXCEPT !.attrs[agent].speakers = speakers.v]

DiscussListeners(S, agent, listeners) ==
    LET IsSub(n) == DictHas(S.subagents[agent], n)
        at == S.attrs[agent]
        NotSpeaker(n) == ~InSeq(n, at.speakers)
        S1 == [S EXCEPT !.attrs[agent].has_listeners = TRUE,
                        !.attrs[agent].listeners =
                            IF at.has_listeners THEN SelectSeq(at.listeners, IsSub) ELSE <<>>]
    IN IF ~listeners.given THEN S1
       ELSE IF \E i \in 1..Len(listeners.v) : ~IsSub(listeners.v[i])
            THEN [S1 EXCEPT !.raised = "KeyError"]
            ELSE [S1 EXCEPT !.attrs[agent].listeners = SelectSeq(listeners.v, NotSpeaker)]

DiscussPrepare(S, agent, speakers, listeners) ==
    LET S1 == DiscussSpeakers(S, agent, speakers)
    IN IF S1.raised # "" THEN S1
       ELSE IF S1.attrs[agent].speakers = <<>>
            THEN [S1 EXCEPT !.raised = IF S1.subagents[agent] = <<>> THEN "KeyError"
                                       ELSE "ValueError"]
            ELSE DiscussListeners(S1, agent, listeners)

Participants(S, agent) == S.attrs[agent].speakers \o S.attrs[agent].listeners

(* harken(msg) for every participant of the list, in order, but skip.      *)
RECURSIVE HarkenAll(_, _, _, _, _)
HarkenAll(S, agent, names, skip, msg) ==
    IF names = <<>> THEN S
    ELSE HarkenAll(IF Head(names) = skip THEN S
                   ELSE Harken(S, DictGet(S.subagents[agent], Head(names)), "user", msg, <<>>),
                   agent, Tail(names), skip, msg)

(* Lines 197-201: the prompt, if any, is logged as a fragment of the chair *)
(* and harkened by every speaker and listener.                             *)
DiscussPrompt(S, agent, prompt, ctc) ==
    IF prompt = "" THEN S
    ELSE LET S1 == LoggedFragment(S, agent, prompt, CauseStr(ctc))
         IN HarkenAll(S1, agent, Participants(S1, agent), "", TrackedString(prompt, LastMsgId(S1)))

DiscussStart(S, f, prompt, speakers, listeners) ==
    LET S1 == DiscussPrepare(S, f.agent, speakers, listeners)
    IN IF S1.raised # "" THEN S1 ELSE DiscussPrompt(S1, f.agent, prompt, CurrentToolCall(f))

Speaker(S, f, i) == DictGet(S.subagents[f.agent], S.attrs[f.agent].speakers[i])
IsSingle(S, agent) == Len(S.attrs[agent].speakers) = 1 /\ Len(S.attrs[agent].listeners) = 0

(* discuss fails in its book-keeping: an unknown speaker or listener, or   *)
(* no speaker at all.                                                      *)
ToolDiscussRaise ==
    /\ UNCHANGED tooling
    /\ UNCHANGED inputs
    /\ UNCHANGED mini_agent
    /\ Calling("discuss")
    /\ \E speakers \in SpeakersArgs, listeners \in ListenersArgs :
          LET S1 == DiscussPrepare(Cur, Top.agent, speakers, listeners)
          IN /\ S1.raised # ""
             /\ Commit(S1)
             /\ Raise(S1.raised)
    /\ UNCHANGED <<returned, verdicts>>

(* discuss asks a first speaker who has nothing to respond to: the         *)
(* assertion of Agent.response fails.                                      *)
ToolDiscussMute ==
    /\ UNCHANGED tooling
    /\ UNCHANGED inputs
    /\ UNCHANGED mini_agent
    /\ Calling("discuss")
    /\ \E prompt \in {"", "p"}, speakers \in SpeakersArgs, listeners \in ListenersArgs :
          LET S1 == DiscussStart(Cur, Top, prompt, speakers, listeners)
          IN /\ S1.raised = ""
             /\ ~CanRespond(S1, Speaker(S1, Top, 1))
             /\ Commit(S1)
             /\ Raise("AssertionError")
    /\ UNCHANGED <<returned, verdicts>>

(* discuss up to its first await: the response of the first speaker.       *)
ToolDiscuss ==
    /\ UNCHANGED tooling
    /\ UNCHANGED inputs
    /\ UNCHANGED mini_agent
    /\ Calling("discuss")
    /\ \E prompt \in {"", "p"}, speakers \in SpeakersArgs, listeners \in ListenersArgs :
          LET S1 == DiscussStart(Cur, Top, prompt, speakers, listeners)
          IN /\ S1.raised = ""
             /\ CanRespond(S1, Speaker(S1, Top, 1))
             /\ Commit(S1)
             /\ stack' = Append(SetTop([Top EXCEPT !.pc = "await_discuss", !.di = 1,
                                                   !.dres = <<>>]),
                                Frame(Speaker(S1, Top, 1)))
    /\ UNCHANGED <<mode, exc, returned, verdicts>>

-----------------------------------------------------------------------------
(* The end of Agent.response *)

(* Line 101: the utterance, tracked under the id of its assistant turn.    *)
ReturnLatestRecord(f) == TrackedString(f.content, ToString(next_message_id - 1))
ReturnValue(f) == TrackedString(f.content, f.msg_id)

(* Lines 92-99 after a hook's verdict: a problem is harkened as a <system> *)
(* note and the loop repeats; otherwise the next hook is consulted.        *)
AfterVerdictIgnored(f, problem) == [f EXCEPT !.pc = "hooks", !.hk = @ + 1]
AfterVerdict(f, problem) ==
    IF problem # "" THEN [f EXCEPT !.pc = "completion"]
    ELSE [f EXCEPT !.pc = "hooks", !.hk = @ + 1]

Returning == Running("hooks") /\ Top.hk > Len(hooks[Top.agent])
Returns(f) == [agent |-> f.agent, value |-> ReturnValue(f), nhooks |-> Len(hooks[f.agent]),
               turn |-> f.msg_id]

(* SmartHook.comment_on_last_response up to its await: the internal agent  *)
(* is given the hook's prompt and a synthetic read_log exchange, and its   *)
(* response is awaited.                                                    *)
HookCheck ==
    /\ UNCHANGED tooling
    /\ UNCHANGED inputs
    /\ UNCHANGED mini_agent
    /\ Running("hooks")
    /\ Top.hk <= Len(hooks[Top.agent])
    /\ LET h == hooks[Top.agent][Top.hk]
           a == h.internal
           S0 == [Cur EXCEPT !.attrs[a].denied = ""]
           S1 == Harken(S0, a, "user", Str(h.prompt), <<>>)
           S2 == Harken(S1, a, "assistant", Str("Reading the last request/response pair"),
                        [tool_calls |-> <<[id |-> "ephemeral1", name |-> "read_log"]>>])
           S3 == Harken(S2, a, "tool", Str(RecallLast(transcript[Top.agent])),
                        [tool_call_id |-> "ephemeral1", name |-> "read_log"])
       IN /\ Commit(S3)
          /\ stack' = Append(SetTop([Top EXCEPT !.pc = "await_hook",
                                                !.orig = Len(transcript[a])]), Frame(a))
    /\ UNCHANGED <<mode, exc, returned, verdicts>>

(* The internal agent has answered: its transcript is cut back, and the    *)
(* verdict (_denied) goes to the monitored agent's response loop.          *)
ReturnToHook ==
    /\ UNCHANGED tooling
    /\ UNCHANGED inputs
    /\ UNCHANGED mini_agent
    /\ Returning
    /\ Len(stack) > 1 /\ Caller.pc = "await_hook"
    /\ LET a == Top.agent
           problem == attrs[a].denied
           S1 == [Cur EXCEPT !.transcript[a] = SubSeq(@, 1, Caller.orig)]
           S2 == IF problem # ""
                 THEN Harken(S1, Caller.agent, "user", Str("<system>" \o problem \o "</system>"), <<>>)
                 ELSE S1
       IN /\ Commit(S2)
          /\ stack' = [Pop EXCEPT ![Len(stack) - 1] = AfterVerdict(Caller, problem)]
          /\ verdicts' = verdicts \cup {[agent |-> Caller.agent, turn |-> Caller.msg_id,
                                         hook |-> Caller.hk, problem |-> problem]}
    /\ returned' = returned \cup {Returns(Top)}
    /\ UNCHANGED <<mode, exc>>

(* The subagent has answered task's user_prompt: its utterance is the      *)
(* tool's result.                                                          *)
ReturnToTask ==
    /\ UNCHANGED tooling
    /\ UNCHANGED inputs
    /\ UNCHANGED mini_agent
    /\ Returning
    /\ Len(stack) > 1 /\ Caller.pc = "await_task"
    /\ LET S1 == ToolResult(Cur, Caller, ReturnValue(Top))
       IN /\ Commit(S1)
          /\ stack' = [Pop EXCEPT ![Len(stack) - 1] = AfterTool(Caller)]
    /\ returned' = returned \cup {Returns(Top)}
    /\ UNCHANGED <<mode, exc, verdicts>>

(* The interlocutor has answered: interact prints it and waits for input.  *)
ReturnToUser ==
    /\ UNCHANGED tooling
    /\ UNCHANGED inputs
    /\ UNCHANGED mini_agent
    /\ Returning
    /\ Len(stack) = 1
    /\ stack' = <<>>
    /\ mode' = "input"
    /\ returned' = returned \cup {Returns(Top)}
    /\ UNCHANGED <<logfile, next_message_id, agent_id, interlocutor, nagents, transcript,
                   subagents, hooks, attrs, exc, verdicts>>

(* Line 213: the speaker's reply as the others hear it.                    *)
Prefixed(name, resp) == TrackedString("[" \o name \o "]: " \o resp.s, resp.message_id)

(* Lines 203-207: one speaker and no listener: the reply is the result,    *)
(* caused by the speaker's utterance.                                      *)
ReturnToDiscussSingle ==
    /\ UNCHANGED tooling
    /\ UNCHANGED inputs
    /\ UNCHANGED mini_agent
    /\ Returning
    /\ Len(stack) > 1 /\ Caller.pc = "await_discuss"
    /\ IsSingle(Cur, Caller.agent)
    /\ LET res == ReturnValue(Top)
           S1 == ToolResult(Cur, Caller, StringWithCause(res.s, CauseList(<<res.message_id>>)))
       IN /\ Commit(S1)
          /\ stack' = [Pop EXCEPT ![Len(stack) - 1] = AfterTool(Caller)]
    /\ returned' = returned \cup {Returns(Top)}
    /\ UNCHANGED <<mode, exc, verdicts>>

(* Lines 210-218: the reply, prefixed with the speaker's name, is harkened *)
(* by every other participant. Heard is the state after that, Replies the  *)
(* list res after the append.                                              *)
HeardByAll(S, f, resp) ==
    LET name == S.attrs[f.agent].speakers[f.di]
    IN HarkenAll(S, f.agent, Participants(S, f.agent), "", Prefixed(name, resp))
Heard(S, f, resp) ==
    LET name == S.attrs[f.agent].speakers[f.di]
    IN HarkenAll(S, f.agent, Participants(S, f.agent), name, Prefixed(name, resp))
Replies(S, f, resp) == Append(f.dres, Prefixed(S.attrs[f.agent].speakers[f.di], resp))

(* More speakers follow: the response of the next one is awaited.          *)
ReturnToDiscussNext ==
    /\ UNCHANGED tooling
    /\ UNCHANGED inputs
    /\ UNCHANGED mini_agent
    /\ Returning
    /\ Len(stack) > 1 /\ Caller.pc = "await_discuss"
    /\ ~IsSingle(Cur, Caller.agent)
    /\ Caller.di < Len(attrs[Caller.agent].speakers)
    /\ LET S1 == Heard(Cur, Caller, ReturnValue(Top))
           next == Speaker(S1, Caller, Caller.di + 1)
       IN          /\ Commit(S1)
          /\ IF CanRespond(S1, next)
             THEN /\ stack' = Append([Pop EXCEPT ![Len(stack) - 1] =
                                         [Caller EXCEPT !.di = @ + 1,
                                                        !.dres = Replies(S1, Caller, ReturnValue(Top))]],
                                     Frame(next))
                  /\ UNCHANGED <<mode, exc>>
             ELSE /\ mode' = "crashed"
                  /\ exc' = [error |-> "AssertionError", call |-> CurrentToolCall(Caller),
                             agent |-> Caller.agent]
                  /\ stack' = <<>>
    /\ returned' = returned \cup {Returns(Top)}
    /\ UNCHANGED verdicts

(* Line 219: the last speaker has answered: the replies, joined by a blank *)
(* line, are the result, caused by the speakers' utterances.               *)
DiscussResultInLines(res) ==
    StringWithCause(Join([i \in 1..Len(res) |-> res[i].s], "\n"),
                    CauseList([i \in 1..Len(res) |-> res[i].message_id]))
DiscussResult(res) ==
    StringWithCause(Join([i \in 1..Len(res) |-> res[i].s], "\n\n"),
                    CauseList([i \in 1..Len(res) |-> res[i].message_id]))

ReturnToDiscussLast ==
    /\ UNCHANGED tooling
    /\ UNCHANGED inputs
    /\ UNCHANGED mini_agent
    /\ Returning
    /\ Len(stack) > 1 /\ Caller.pc = "await_discuss"
    /\ ~IsSingle(Cur, Caller.agent)
    /\ Caller.di = Len(attrs[Caller.agent].speakers)
    /\ LET S1 == Heard(Cur, Caller, ReturnValue(Top))
           S2 == ToolResult(S1, Caller, DiscussResult(Replies(S1, Caller, ReturnValue(Top))))
       IN          /\ Commit(S2)
          /\ stack' = [Pop EXCEPT ![Len(stack) - 1] = AfterTool(Caller)]
    /\ returned' = returned \cup {Returns(Top)}
    /\ UNCHANGED <<mode, exc, verdicts>>

-----------------------------------------------------------------------------
(* Session.load *)

(* The replay of one event: agentspec is kept as the ids in insertion      *)
(* order (order) with each id's transcript and subagents dict; failed is   *)
(* set where the code raises (a missing key, an unknown agent or event).   *)
Replayed == [order |-> <<>>, transcript |-> <<>>, subagents |-> <<>>, interlocutor_id |-> "",
             max_message_id |-> -1, failed |-> FALSE]

Fail(R) == [R EXCEPT !.failed = TRUE]

ReplayEvent(R, event) ==
    IF ~({"message_id", "event_type"} \subseteq DOMAIN event) THEN Fail(R)
    ELSE
    LET R1 == IF IsDigit(event.message_id) /\ ToInt(event.message_id) > R.max_message_id
              THEN [R EXCEPT !.max_message_id = ToInt(event.message_id)] ELSE R
    IN CASE event.event_type = "agent_created" ->
              IF ~({"language_model", "agent", "name", "parent"} \subseteq DOMAIN event)
              THEN Fail(R1)
              ELSE LET id == event.agent
                       R2 == [R1 EXCEPT !.order = IF InSeq(id, @) THEN @ ELSE Append(@, id),
                                        !.transcript = (id :> <<>>) @@ @,
                                        !.subagents = (id :> <<>>) @@ @]
                   IN IF event.parent = "user" THEN [R2 EXCEPT !.interlocutor_id = id]
                      ELSE IF ~InSeq(event.parent, R2.order) THEN Fail(R2)
                      ELSE [R2 EXCEPT !.subagents[event.parent] = DictSet(@, event.name, id)]
         [] event.event_type = "transcript_entry" ->
              IF ~({"role", "agent"} \subseteq DOMAIN event) THEN Fail(R1)
              ELSE IF ~InSeq(event.agent, R1.order) THEN Fail(R1)
              ELSE LET keys == {"role"} \cup ({"content", "tool_calls", "name", "tool_call_id"}
                                                  \cap DOMAIN event)
                       msg == [k \in keys |-> event[k]]
                   IN [R1 EXCEPT !.transcript[event.agent] = Append(@, msg)]
         [] event.event_type = "fragment" -> R1
         [] OTHER -> Fail(R1)

(* The loop over the lines of the file: the events from the i-th on.      *)
RECURSIVE Replay(_, _, _)
Replay(log, i, R) ==
    IF i > Len(log) \/ R.failed THEN R ELSE Replay(log, i + 1, ReplayEvent(R, log[i]))

IndexOf(seq, x) == CHOOSE i \in 1..Len(seq) : seq[i] = x

(* Line 259: session.next_message_id = max_message_id + 1                  *)
NextAfterIsMax(max_message_id) == max_message_id
NextAfter(max_message_id) == max_message_id + 1

(* Lines 250-260: an Agent per replayed id (construct_agent of             *)
(* src/smallchat.py: Agent(session, language_model, transcript)), the      *)
(* subagents dicts, the interlocutor and the counter.                      *)
Loaded(log, R) ==
    LET n == Len(R.order)
    IN IF R.failed \/ R.interlocutor_id = "" THEN [Empty EXCEPT !.raised = "KeyError"]
       ELSE [logfile |-> log,
             next_message_id |-> NextAfter(R.max_message_id),
             agent_id |-> [a \in 1..n |-> R.order[a]],
             interlocutor |-> IndexOf(R.order, R.interlocutor_id),
             nagents |-> n,
             transcript |-> [a \in 1..n |-> R.transcript[R.order[a]]],
             subagents |-> [a \in 1..n |->
                              LET d == R.subagents[R.order[a]]
                              IN [i \in 1..Len(d) |-> <<d[i][1], IndexOf(R.order, d[i][2])>>]],
             hooks |-> [a \in 1..n |-> <<>>],
             attrs |-> [a \in 1..n |-> NoAttrs],
             raised |-> ""]

Load(log) == Loaded(log, CHOOSE R \in {Replay(log, 1, Replayed)} : TRUE)

(* The log file an earlier run of the program has left: one prompt, a turn *)
(* of the model that requested task (a subagent "a" with a user prompt,    *)
(* which answered), and the interlocutor's utterance.                      *)
SavedLog ==
    LET tool_calls == <<[id |-> "t1", name |-> "task"]>>
        S1 == LoggedFragment(NewSession, User, "hello", CauseStr("user"))
        S2 == Harken(S1, S1.interlocutor, "user", TrackedString("hello", LastMsgId(S1)), <<>>)
        S3 == Assistant(S2, Frame(S2.interlocutor), tool_calls)
        f == [Frame(S2.interlocutor) EXCEPT !.msg_id = LastMsgId(S3), !.content = Utterance,
                                            !.calls = tool_calls, !.pc = "tools"]
        S4 == TaskCreate(S3, f, "a")
        S5 == LoggedFragment(S4, f.agent, "q", CauseStr(CurrentToolCall(f)))
        S6 == Harken(S5, S4.nagents, "user", TrackedString("q", LastMsgId(S5)), <<>>)
        S7 == Assistant(S6, Frame(S4.nagents), <<>>)
        S8 == ToolResult(S7, f, TrackedString(Utterance, LastMsgId(S7)))
    IN Assistant(S8, Frame(S2.interlocutor), <<>>).logfile

(* Init: get_session for a session that is resumed: Session.load of the    *)
(* saved log.                                                              *)
InitResumed ==
    /\ \E S \in {Load(SavedLog)} :
          /\ logfile = S.logfile
          /\ next_message_id = S.next_message_id
          /\ agent_id = S.agent_id
          /\ interlocutor = S.interlocutor
          /\ nagents = S.nagents
          /\ transcript = S.transcript
          /\ subagents = S.subagents
          /\ hooks = S.hooks
          /\ attrs = S.attrs
    /\ stack = <<>>
    /\ mode = "input"
    /\ exc = [error |-> "", call |-> "", agent |-> 0]
    /\ returned = {}
    /\ verdicts = {}
    /\ envs = <<>>
    /\ loops = <<>>
    /\ mini = "off"
    /\ hooked = NoHooks
    /\ events = <<>>
    /\ prompts = 0
    /\ calls = 0
    /\ ToolingOff

(* The program is started again on the log file: Session.load(filename,    *)
(* construct_agent) with the construct_agent of get_session, at the prompt *)
(* or after an exception has ended the process. (get_session itself passes *)
(* a third argument, construct_hook, which load does not accept.)          *)
Resume ==
    /\ UNCHANGED tooling
    /\ UNCHANGED inputs
    /\ UNCHANGED mini_agent
    /\ mode \in {"input", "crashed"}
    /\ \E S1 \in {Load(logfile)} :
          /\ S1.raised = ""
          /\ Commit(S1)
    /\ stack' = <<>>
    /\ mode' = "input"
    /\ exc' = [error |-> "", call |-> "", agent |-> 0]
    /\ UNCHANGED <<returned, verdicts>>

-----------------------------------------------------------------------------
(* mini_agent (src/mini_agent.py) *)

(* Content blocks (src/typedefs.py) and transcript items.                  *)
TextMessageContent(text) == [type |-> "text", text |-> text]
ToolUseMessageContent(id, name) == [type |-> "tool_use", id |-> id, name |-> name]
ToolResultMessageContent(tool_use_id, content, is_error) ==
    [type |-> "tool_result", tool_use_id |-> tool_use_id, content |-> content,
     is_error |-> is_error]
UserTranscriptItem(content) == [type |-> "user", content |-> content]
AssistantTranscriptItem(content) == [type |-> "assistant", content |-> content]

IsText(c) == c.type = "text"
IsToolUse(c) == c.type = "tool_use"
IsToolResult(c) == c.type = "tool_result"
NotText(c) == c.type # "text"

(* Env: what the loop reads of it, the transcript and the lines of the     *)
(* transcript file.                                                        *)
Env == [transcript |-> <<>>, transcript_file |-> <<>>]

(* adapter.append_to_transcript_file: one line per content block.          *)
AppendToTranscriptFile(file, item) ==
    file \o [i \in 1..Len(item.content) |-> [type |-> item.type, content |-> item.content[i]]]

(* A variant that differs from the code: the item is appended twice.       *)
AppendToTranscriptTwice(E, e, item) ==
    [E EXCEPT ![e].transcript = @ \o <<item, item>>,
              ![e].transcript_file = AppendToTranscriptFile(@, item)]

(* Env.append_to_transcript *)
AppendToTranscript(E, e, item) ==
    [E EXCEPT ![e].transcript = Append(@, item),
              ![e].transcript_file = AppendToTranscriptFile(@, item)]

(* The blocks of a list of lists, in order.                                *)
RECURSIVE Flatten(_)
Flatten(lists) == IF lists = <<>> THEN <<>> ELSE Head(lists) \o Flatten(Tail(lists))

-----------------------------------------------------------------------------
(* Hook outputs and their combine operations (src/typedefs.py) *)

(* An optional string is <<>> for None and <<s>> for the string s; a       *)
(* Literal field that is None is <<>> too. Python's truth of such a value: *)
(* None and the empty string are false.                                    *)
Truthy(o) == o # <<>> /\ o[1] # ""

(* filter(None, [...]): the strings that are neither None nor empty.       *)
RECURSIVE FilterNone(_)
FilterNone(opts) ==
    IF opts = <<>> THEN <<>>
    ELSE (IF Truthy(Head(opts)) THEN <<Head(opts)[1]>> ELSE <<>>) \o FilterNone(Tail(opts))

AllOfSome(bools) == bools # <<>> /\ \A i \in 1..Len(bools) : bools[i]
AllOf(bools) == \A i \in 1..Len(bools) : bools[i]
AnyOf(opts) == \E i \in 1..Len(opts) : Truthy(opts[i])

(* additionalContext: str | list[TextMessageContent] | None                *)
ContextNone == [kind |-> "none"]
ContextStr(text) == [kind |-> "str", text |-> text]
ContextList(texts) == [kind |-> "list", texts |-> texts]

(* A UserPromptSubmitHookOutput: d is its decision and reason, c its       *)
(* continue_ and stopReason.                                               *)
UserPromptSubmitHookOutput(d, c, post, pre) ==
    [decision |-> d[1], reason |-> d[2], continue_ |-> c[1], stopReason |-> c[2],
     suppressOutput |-> FALSE,
     hookSpecificOutput |-> [additionalContext |-> post, additionalContextPre |-> pre]]

(* A PostToolUseHookOutput.                                                *)
PostToolUseHookOutput(c, d) ==
    [continue_ |-> c[1], stopReason |-> c[2], decision |-> d[1], reason |-> d[2]]

(* A PreToolUseHookOutput: d is its legacy decision and reason, pd its     *)
(* permissionDecision and permissionDecisionReason.                        *)
PreToolUseHookOutput(c, d, pd) ==
    [continue_ |-> c, stopReason |-> <<>>, suppressOutput |-> FALSE,
     decision |-> d[1], reason |-> d[2],
     hookSpecificOutput |-> [permissionDecision |-> pd[1],
                             permissionDecisionReason |-> pd[2]]]

(* texts(i) of UserPromptSubmitHookOutput.combine, lines 147-148.          *)
Texts(i) ==
    IF i.kind = "str" THEN <<TextMessageContent(i.text)>>
    ELSE IF i.kind = "list" THEN i.texts
    ELSE <<>>

NormalizedAsList(texts) == IF Len(texts) = 0 THEN ContextNone ELSE ContextList(texts)

(* Lines 157-158: None, the text of the only block, or the list.           *)
Normalized(texts) ==
    IF Len(texts) = 0 THEN ContextNone
    ELSE IF Len(texts) = 1 THEN ContextStr(texts[1].text)
    ELSE ContextList(texts)

(* UserPromptSubmitHookOutput.combine: the output and the pre and post     *)
(* contexts as lists.                                                      *)
UserPromptSubmitCombine(outputs) ==
    LET n == Len(outputs)
        pre == Flatten([i \in 1..n |-> Texts(outputs[i].hookSpecificOutput.additionalContextPre)])
        post == Flatten([i \in 1..n |-> Texts(outputs[i].hookSpecificOutput.additionalContext)])
    IN [output |->
           [decision |-> IF AnyOf([i \in 1..n |-> outputs[i].decision]) THEN <<"block">> ELSE <<>>,
            reason |-> <<Join(FilterNone([i \in 1..n |-> outputs[i].reason]), "\n")>>,
            continue_ |-> AllOf([i \in 1..n |-> outputs[i].continue_]),
            stopReason |-> <<Join(FilterNone([i \in 1..n |-> outputs[i].stopReason]), "\n")>>,
            suppressOutput |-> AllOf([i \in 1..n |-> outputs[i].suppressOutput]),
            hookSpecificOutput |-> [additionalContextPre |-> Normalized(pre),
                                    additionalContext |-> Normalized(post)]],
        pre |-> pre,
        post |-> post]

(* PostToolUseHookOutput.combine *)
PostToolUseCombine(outputs) ==
    LET n == Len(outputs)
    IN [continue_ |-> AllOf([i \in 1..n |-> outputs[i].continue_]),
        stopReason |-> <<Join(FilterNone([i \in 1..n |-> outputs[i].stopReason]), "\n")>>,
        decision |-> IF AnyOf([i \in 1..n |-> outputs[i].decision]) THEN <<"block">> ELSE <<>>,
        reason |-> <<Join(FilterNone([i \in 1..n |-> outputs[i].reason]), "\n")>>]

LegacyDropped(o) == [o EXCEPT !.decision = <<>>, !.reason = <<>>]

(* PreToolUseHookOutput.combine, lines 259-264: the legacy decision of an  *)
(* output, approve or block, replaces its permissionDecision and reason.   *)
Legacy(o) ==
    IF Truthy(o.decision)
    THEN [o EXCEPT !.hookSpecificOutput =
                       [permissionDecision |->
                            IF o.decision = <<"approve">> THEN <<"allow">> ELSE <<"deny">>,
                        permissionDecisionReason |-> o.reason],
                   !.decision = <<>>, !.reason = <<>>]
    ELSE [o EXCEPT !.decision = <<>>, !.reason = <<>>]

(* Lines 265-277.                                                          *)
PreToolUseCombine(given) ==
    LET n == Len(given)
        outputs == [i \in 1..n |-> Legacy(given[i])]
        decisions == [i \in 1..n |-> outputs[i].hookSpecificOutput.permissionDecision]
        IsDeny(o) == o.hookSpecificOutput.permissionDecision = <<"deny">>
        denied == SelectSeq(outputs, IsDeny)
        denyReasons == [i \in 1..Len(denied) |->
                           denied[i].hookSpecificOutput.permissionDecisionReason]
    IN [continue_ |-> AllOf([i \in 1..n |-> outputs[i].continue_]),
        stopReason |-> <<Join(FilterNone([i \in 1..n |-> outputs[i].stopReason]), "\n")>>,
        suppressOutput |-> AllOf([i \in 1..n |-> outputs[i].suppressOutput]),
        decision |-> <<>>,
        reason |-> <<>>,
        hookSpecificOutput |->
            [permissionDecision |->
                 IF InSeq(<<"deny">>, decisions) THEN <<"deny">>
                 ELSE IF InSeq(<<"ask">>, decisions) THEN <<"ask">>
                 ELSE IF InSeq(<<"allow">>, decisions) THEN <<"allow">>
                 ELSE <<>>,
             permissionDecisionReason |->
                 IF AnyOf(denyReasons) THEN <<Join(FilterNone(denyReasons), "\n")>> ELSE <<>>]]

-----------------------------------------------------------------------------
(* main, agentic_loop and invoke_tool (src/mini_agent.py) *)

(* The tool uses in the transcripts so far (the ids of new ones follow).   *)
ToolUsesIn(tr) == SumSeq([i \in 1..Len(tr) |-> Len(SelectSeq(tr[i].content, IsToolUse))])
ToolUsesSoFar == SumSeq([e \in 1..Len(envs) |-> ToolUsesIn(envs[e].transcript)])

(* The frame of one agentic_loop: its env, where it stands, the tool uses  *)
(* of the latest assistant item, the content invoke_tool has returned for  *)
(* the ones already invoked, and the texts it is about to return.          *)
Loop(e) == [env |-> e, pc |-> "acompletion", tool_uses |-> <<>>, tool_results |-> <<>>,
            texts |-> <<>>]
Inner == loops[Len(loops)]
Outer == loops[Len(loops) - 1]
InLoop(pc) == mini = "running" /\ loops # <<>> /\ Inner.pc = pc
ToolUse(f) == f.tool_uses[Len(f.tool_results) + 1]

(* invoke_hooks for one event: what the hooks have answered and what      *)
(* combine has made of it.                                                 *)
Hooked(event, input, outputs, combined) ==
    [event |-> event, input |-> <<input>>, outputs |-> outputs, combined |-> <<combined>>]

(* What the UserPromptSubmit hooks answer to a prompt: there is no hook,   *)
(* or two that add context on both sides, or one that adds context and one *)
(* that blocks, or one that stops.                                         *)
UserPromptSubmit ==
    LET No == << <<>>, <<>> >>
        Go == <<TRUE, <<>> >>
    IN {<<>>,
        <<UserPromptSubmitHookOutput(No, Go, ContextStr("A"), ContextStr("P")),
          UserPromptSubmitHookOutput(No, Go,
              ContextList(<<TextMessageContent("B"), TextMessageContent("C")>>),
              ContextList(<<TextMessageContent("Q")>>))>>,
        <<UserPromptSubmitHookOutput(No, Go, ContextStr("A"), ContextNone),
          UserPromptSubmitHookOutput(<< <<"block">>, <<"no">> >>, Go, ContextNone, ContextNone)>>,
        <<UserPromptSubmitHookOutput(No, <<FALSE, <<"stop">> >>, ContextNone, ContextStr("P"))>>}

(* user_prompt_hook, line 123: the hooks refuse the prompt.                *)
Refused(hook_output) == hook_output.decision = <<"block">> \/ ~hook_output.continue_

(* Line 129: the contexts before the prompt, the prompt, the contexts      *)
(* after it. (Line 130 passes a prompt without context on as a string; it  *)
(* is kept here as its one text block.)                                    *)
PromptFirst(pre, prompt, post) == <<TextMessageContent(prompt)>> \o pre \o post
UserContent(pre, prompt, post) == pre \o <<TextMessageContent(prompt)>> \o post

(* main and user_prompt_hook: the prompt is refused by the UserPromptSubmit*)
(* hooks (decision block or continue false): user_prompt_hook returns None,*)
(* nothing is added to the transcript and agentic_loop is not started.     *)
UserPromptBlocked ==
    /\ UNCHANGED tooling
    /\ mini = "input"
    /\ prompts < MaxPrompts
    /\ UNCHANGED inputs
    /\ \E outputs \in UserPromptSubmit :
          LET combined == UserPromptSubmitCombine(outputs)
          IN /\ Refused(combined.output)
             /\ hooked' = Hooked("UserPromptSubmit", "hello", outputs, combined)
    /\ UNCHANGED <<envs, loops, mini, events>>
    /\ UNCHANGED smallchat

(* main and user_prompt_hook: the prompt, with the context the hooks add   *)
(* before and after it, becomes a user item, and agentic_loop starts.      *)
UserPrompt ==
    /\ UNCHANGED tooling
    /\ mini = "input"
    /\ prompts < MaxPrompts
    /\ prompts' = prompts + 1
    /\ UNCHANGED calls
    /\ \E outputs \in UserPromptSubmit :
          LET combined == UserPromptSubmitCombine(outputs)
          IN /\ ~Refused(combined.output)
             /\ hooked' = Hooked("UserPromptSubmit", "hello", outputs, combined)
             /\ envs' = AppendToTranscript(envs, 1,
                            UserTranscriptItem(UserContent(combined.pre, "hello", combined.post)))
    /\ loops' = <<Loop(1)>>
    /\ mini' = "running"
    /\ UNCHANGED events
    /\ UNCHANGED smallchat

(* agentic_loop, lines 77-81: the call of the model raises; the user       *)
(* presses enter and the same message is tried again.                      *)
AcompletionFails ==
    /\ UNCHANGED tooling
    /\ UNCHANGED inputs
    /\ InLoop("acompletion")
    /\ UNCHANGED mini_agent
    /\ UNCHANGED smallchat

(* agentic_loop: the assistant item has no tool use: its texts are         *)
(* returned.                                                               *)
AssistantTexts ==
    /\ UNCHANGED tooling
    /\ hooked' = NoHooks
    /\ UNCHANGED events
    /\ UNCHANGED inputs
    /\ InLoop("acompletion")
    /\ LET item == AssistantTranscriptItem(<<TextMessageContent(Utterance)>>)
       IN /\ envs' = AppendToTranscript(envs, Inner.env, item)
          /\ loops' = [loops EXCEPT ![Len(loops)] =
                          [@ EXCEPT !.pc = "return", !.tool_uses = <<>>, !.tool_results = <<>>,
                                    !.texts = SelectSeq(item.content, IsText)]]
    /\ UNCHANGED mini
    /\ UNCHANGED smallchat

(* The content of an assistant item that asks for tools: one or two tool   *)
(* uses with fresh ids, after a text or not.                               *)
ToolUseContents ==
    LET u1 == ToolUseMessageContent("toolu" \o ToString(ToolUsesSoFar + 1), "Task")
        u2 == ToolUseMessageContent("toolu" \o ToString(ToolUsesSoFar + 2), "Task")
    IN {<<TextMessageContent(Utterance), u1>>, <<u1, u2>>}

(* agentic_loop: the assistant item asks for tools; they are invoked one   *)
(* after the other (line 96).                                              *)
AssistantToolUses ==
    /\ UNCHANGED tooling
    /\ hooked' = NoHooks
    /\ UNCHANGED events
    /\ UNCHANGED prompts
    /\ InLoop("acompletion")
    /\ \E content \in ToolUseContents :
          LET item == AssistantTranscriptItem(content)
          IN /\ calls + Len(SelectSeq(content, IsToolUse)) <= MaxCalls
             /\ calls' = calls + Len(SelectSeq(content, IsToolUse))
             /\ envs' = AppendToTranscript(envs, Inner.env, item)
             /\ loops' = [loops EXCEPT ![Len(loops)] =
                             [@ EXCEPT !.pc = "invoke_tool",
                                       !.tool_uses = SelectSeq(content, IsToolUse),
                                       !.tool_results = <<>>]]
    /\ UNCHANGED mini
    /\ UNCHANGED smallchat

(* Lines 97-98: sorted(combined_content, key=isinstance TextMessageContent)*)
(* is stable: the blocks that are not text in their order, then the texts. *)
NonInterleavedReversed(combined_content) ==
    LET rest == SelectSeq(combined_content, NotText)
    IN [i \in 1..Len(rest) |-> rest[Len(rest) + 1 - i]] \o SelectSeq(combined_content, IsText)
NonInterleaved(combined_content) ==
    SelectSeq(combined_content, NotText) \o SelectSeq(combined_content, IsText)

(* invoke_tool has returned content for the tool use at work: the next     *)
(* tool use is invoked, or, after the last one, the results of all of them *)
(* are appended as one user item and the model is called again.            *)
Invoked(f, content) ==
    IF Len(f.tool_results) + 1 < Len(f.tool_uses)
    THEN [f EXCEPT !.pc = "invoke_tool", !.tool_results = Append(@, content)]
    ELSE [f EXCEPT !.pc = "acompletion", !.tool_results = Append(@, content)]

Recorded(E, f, content) ==
    IF Len(f.tool_results) + 1 < Len(f.tool_uses) THEN E
    ELSE AppendToTranscript(E, f.env,
             UserTranscriptItem(NonInterleaved(Flatten(Append(f.tool_results, content)))))

(* What the PreToolUse hooks answer for a tool use: there is no hook, or   *)
(* one asks and one allows, or one denies with a reason and one blocks the *)
(* legacy way although it allows.                                          *)
PreToolUse ==
    LET No == << <<>>, <<>> >>
    IN {<<>>,
        <<PreToolUseHookOutput(TRUE, No, << <<"ask">>, <<>> >>),
          PreToolUseHookOutput(TRUE, No, << <<"allow">>, <<>> >>)>>,
        <<PreToolUseHookOutput(TRUE, No, << <<"deny">>, <<"why">> >>),
          PreToolUseHookOutput(TRUE, << <<"block">>, <<"legacy">> >>, << <<"allow">>, <<>> >>)>>}

(* What the PostToolUse hooks answer: there is no hook, or one blocks with *)
(* a reason, or one blocks without a reason and stops.                     *)
PostToolUse ==
    {<<>>,
     <<PostToolUseHookOutput(<<TRUE, <<>> >>, << <<"block">>, <<"reason">> >>)>>,
     <<PostToolUseHookOutput(<<FALSE, <<"stop">> >>, << <<"block">>, <<>> >>)>>}

(* Line 141.                                                               *)
Denied(prehook_output) == prehook_output.hookSpecificOutput.permissionDecision = <<"deny">>

(* An optional string in an f-string.                                      *)
Format(opt) == IF opt = <<>> THEN "None" ELSE opt[1]

(* Lines 143-145: what invoke_tool returns for a tool use the hooks deny.  *)
BlockedAsSuccess(tool_use, prehook_output) ==
    <<ToolResultMessageContent(tool_use.id,
          tool_use.name \o " operation blocked by hook:\n-"
              \o Format(prehook_output.hookSpecificOutput.permissionDecisionReason),
          FALSE)>>
Blocked(tool_use, prehook_output) ==
    <<ToolResultMessageContent(tool_use.id,
          tool_use.name \o " operation blocked by hook:\n-"
              \o Format(prehook_output.hookSpecificOutput.permissionDecisionReason),
          TRUE)>>

(* The steps of invoke_tool for a tool use: the PreToolUse                 *)
(* hooks are run (line 140), the tool is called (line 150), the work is    *)
(* delegated to a subagent (line 169), the PostToolUse hooks are run (line *)
(* 183, on success only).                                                  *)
Step(e, tool_use) ==
    [e |-> e, id |-> tool_use.id, tool_name |-> tool_use.name, deny |-> FALSE, reason |-> <<>>]
Prehook(tool_use, prehook_output) ==
    [Step("PreToolUse", tool_use) EXCEPT
        !.deny = Denied(prehook_output),
        !.reason = prehook_output.hookSpecificOutput.permissionDecisionReason]
CallTool(tool_use) == Step("call_tool", tool_use)
Callback(tool_use) == Step("agent_callback", tool_use)
PosthookAlways(tool_use, is_success) == <<Step("PostToolUse", tool_use)>>
Posthook(tool_use, is_success) ==
    IF is_success THEN <<Step("PostToolUse", tool_use)>> ELSE <<>>

(* invoke_tool, lines 138-145: the PreToolUse hooks deny the tool.         *)
InvokeToolDenied ==
    /\ UNCHANGED tooling
    /\ UNCHANGED inputs
    /\ InLoop("invoke_tool")
    /\ \E outputs \in PreToolUse :
          LET prehook_output == PreToolUseCombine(outputs)
              content == Blocked(ToolUse(Inner), prehook_output)
          IN /\ Denied(prehook_output)
             /\ UNCHANGED hooked
             /\ events' = Append(events, Prehook(ToolUse(Inner), prehook_output))
             /\ envs' = Recorded(envs, Inner, content)
             /\ loops' = [loops EXCEPT ![Len(loops)] = Invoked(Inner, content)]
    /\ UNCHANGED mini
    /\ UNCHANGED smallchat

(* invoke_tool, lines 148-154 and 170-188: the hooks do not deny, and the  *)
(* tool raises or reports an error (or a plan or bash callback fails): the *)
(* result is flagged as an error and no PostToolUse hook runs.             *)
InvokeToolFails ==
    /\ UNCHANGED tooling
    /\ UNCHANGED inputs
    /\ InLoop("invoke_tool")
    /\ \E outputs \in PreToolUse :
          LET prehook_output == PreToolUseCombine(outputs)
              content == <<ToolResultMessageContent(ToolUse(Inner).id, "error", TRUE)>>
          IN /\ ~Denied(prehook_output)
             /\ UNCHANGED hooked
             /\ events' = events \o <<Prehook(ToolUse(Inner), prehook_output),
                                      CallTool(ToolUse(Inner))>>
                                 \o Posthook(ToolUse(Inner), FALSE)
             /\ envs' = Recorded(envs, Inner, content)
             /\ loops' = [loops EXCEPT ![Len(loops)] = Invoked(Inner, content)]
    /\ UNCHANGED mini
    /\ UNCHANGED smallchat

(* Lines 175-186: the content invoke_tool returns for a success: the       *)
(* result, and the reason of the PostToolUse hooks, if they block with     *)
(* one, as a text.                                                         *)
Succeeded(tool_use, result, posthook_output) ==
    <<ToolResultMessageContent(tool_use.id, result, FALSE)>>
        \o (IF posthook_output.decision = <<"block">> /\ Truthy(posthook_output.reason)
            THEN <<TextMessageContent(posthook_output.reason[1])>>
            ELSE <<>>)

(* invoke_tool: the hooks do not deny and the tool succeeds, without a     *)
(* callback to the agent (or with a plan or bash callback that succeeds);  *)
(* the PostToolUse hooks run.                                              *)
InvokeToolHooks(outputs, posts) ==
    /\ UNCHANGED tooling
    /\ UNCHANGED inputs
    /\ InLoop("invoke_tool")
    /\ LET prehook_output == PreToolUseCombine(outputs)
           posthook_output == PostToolUseCombine(posts)
           content == Succeeded(ToolUse(Inner), "ok", posthook_output)
       IN /\ ~Denied(prehook_output)
          /\ UNCHANGED hooked
          /\ events' = events \o <<Prehook(ToolUse(Inner), prehook_output),
                                   CallTool(ToolUse(Inner))>>
                              \o Posthook(ToolUse(Inner), TRUE)
          /\ envs' = Recorded(envs, Inner, content)
          /\ loops' = [loops EXCEPT ![Len(loops)] = Invoked(Inner, content)]
    /\ UNCHANGED mini
    /\ UNCHANGED smallchat

InvokeTool ==
    \E outputs \in PreToolUse, posts \in PostToolUse : InvokeToolHooks(outputs, posts)

(* invoke_tool and handle_agent_callback: the hooks do not deny and the    *)
(* tool delegates to a subagent: a new Env with an empty transcript and    *)
(* its own transcript file gets the user content, and its agentic_loop is  *)
(* awaited.                                                                *)
HandleAgentCallback ==
    /\ UNCHANGED tooling
    /\ UNCHANGED inputs
    /\ InLoop("invoke_tool")
    /\ \E outputs \in PreToolUse :
          LET prehook_output == PreToolUseCombine(outputs)
              subenv == Len(envs) + 1
              item == UserTranscriptItem(<<TextMessageContent("task")>>)
          IN /\ ~Denied(prehook_output)
             /\ UNCHANGED hooked
             /\ events' = events \o <<Prehook(ToolUse(Inner), prehook_output),
                                      CallTool(ToolUse(Inner)), Callback(ToolUse(Inner))>>
             /\ envs' = AppendToTranscript(Append(envs, Env), subenv, item)
             /\ loops' = Append([loops EXCEPT ![Len(loops)] = [@ EXCEPT !.pc = "callback"]],
                                Loop(subenv))
    /\ UNCHANGED mini
    /\ UNCHANGED smallchat

(* The subagent's loop returns its texts: they are the result of the tool  *)
(* use that delegated, a success, and the PostToolUse hooks run.           *)
LoopReturnsToCallback ==
    /\ UNCHANGED tooling
    /\ UNCHANGED inputs
    /\ InLoop("return")
    /\ Len(loops) > 1
    /\ \E posts \in PostToolUse :
          LET posthook_output == PostToolUseCombine(posts)
              result == Join([i \in 1..Len(Inner.texts) |-> Inner.texts[i].text], "\n")
              content == Succeeded(ToolUse(Outer), result, posthook_output)
          IN /\ UNCHANGED hooked
             /\ events' = events \o Posthook(ToolUse(Outer), TRUE)
             /\ envs' = Recorded(envs, Outer, content)
             /\ loops' = [i \in 1..(Len(loops) - 1) |->
                             IF i = Len(loops) - 1 THEN Invoked(Outer, content) ELSE loops[i]]
    /\ UNCHANGED mini
    /\ UNCHANGED smallchat

(* main: the texts are printed and the next prompt is awaited.             *)
LoopReturnsToMain ==
    /\ UNCHANGED tooling
    /\ hooked' = NoHooks
    /\ UNCHANGED events
    /\ UNCHANGED inputs
    /\ InLoop("return")
    /\ Len(loops) = 1
    /\ loops' = <<>>
    /\ mini' = "input"
    /\ UNCHANGED envs
    /\ UNCHANGED smallchat

(* Env.from_argv for a new transcript: an empty transcript and file.       *)
InitMiniAgent ==
    /\ logfile = <<>>
    /\ next_message_id = 0
    /\ agent_id = <<>>
    /\ interlocutor = 0
    /\ nagents = 0
    /\ transcript = <<>>
    /\ subagents = <<>>
    /\ hooks = <<>>
    /\ attrs = <<>>
    /\ stack = <<>>
    /\ mode = "off"
    /\ exc = [error |-> "", call |-> "", agent |-> 0]
    /\ returned = {}
    /\ verdicts = {}
    /\ envs = <<Env>>
    /\ loops = <<>>
    /\ mini = "input"
    /\ hooked = NoHooks
    /\ events = <<>>
    /\ prompts = 0
    /\ calls = 0
    /\ ToolingOff

Init == InitSmallchat \/ InitResumed \/ InitMiniAgent

Next ==
    \/ Interact
    \/ CompletionUtterance
    \/ CompletionToolCalls
    \/ ToolMalformed
    \/ ToolTaskInUse
    \/ ToolTask
    \/ ToolTaskPrompt
    \/ ToolHook
    \/ ToolReject
    \/ ToolReadLog
    \/ HookCheck
    \/ ReturnToHook
    \/ ReturnToTask
    \/ ReturnToUser
    \/ ToolDiscussRaise
    \/ ToolDiscussMute
    \/ ToolDiscuss
    \/ ReturnToDiscussSingle
    \/ ReturnToDiscussNext
    \/ ReturnToDiscussLast
    \/ Resume
    \/ UserPromptBlocked
    \/ UserPrompt
    \/ AcompletionFails
    \/ AssistantTexts
    \/ AssistantToolUses
    \/ InvokeToolDenied
    \/ InvokeToolFails
    \/ InvokeTool
    \/ HandleAgentCallback
    \/ LoopReturnsToCallback
    \/ LoopReturnsToMain

Spec == Init /\ [][Next]_vars

-----------------------------------------------------------------------------
(* The combine operations on their own: every list of up to MaxHooks hook  *)
(* outputs is given to the combine of its event.                           *)

Lists(X) == UNION {[1..n -> X] : n \in 0..MaxHooks}

(* What a UserPromptSubmit hook may answer: it blocks with a reason or     *)
(* not, stops with a stopReason or not, and gives contexts as None, a      *)
(* string (also the empty one) or a list of text blocks.                   *)
UserPromptSubmitHookOutputs ==
    {UserPromptSubmitHookOutput(d, c, post, pre) :
        d \in {<< <<>>, <<>> >>, << <<"block">>, <<"no">> >>},
        c \in {<<TRUE, <<>> >>, <<FALSE, <<"stop">> >>},
        post \in {ContextNone, ContextStr("A"), ContextStr(""),
                  ContextList(<<TextMessageContent("B"), TextMessageContent("C")>>)},
        pre \in {ContextNone, ContextStr("P"), ContextList(<<TextMessageContent("Q")>>)}}

PostToolUseHookOutputs ==
    {PostToolUseHookOutput(c, d) :
        c \in {<<TRUE, <<>> >>, <<FALSE, <<"stop">> >>},
        d \in {<< <<>>, <<>> >>, << <<"block">>, <<"why">> >>, << <<"block">>, <<>> >>}}

PreToolUseHookOutputs ==
    {PreToolUseHookOutput(c, d, pd) :
        c \in BOOLEAN,
        d \in {<< <<>>, <<>> >>, << <<"approve">>, <<"legacy">> >>,
               << <<"block">>, <<"legacy">> >>, << <<"block">>, <<>> >>},
        pd \in {<< <<>>, <<>> >>, << <<"allow">>, <<>> >>, << <<"ask">>, <<>> >>,
                << <<"deny">>, <<"why">> >>}}

InitCombine ==
    /\ logfile = <<>>
    /\ next_message_id = 0
    /\ agent_id = <<>>
    /\ interlocutor = 0
    /\ nagents = 0
    /\ transcript = <<>>
    /\ subagents = <<>>
    /\ hooks = <<>>
    /\ attrs = <<>>
    /\ stack = <<>>
    /\ mode = "off"
    /\ exc = [error |-> "", call |-> "", agent |-> 0]
    /\ returned = {}
    /\ verdicts = {}
    /\ envs = <<>>
    /\ loops = <<>>
    /\ mini = "off"
    /\ events = <<>>
    /\ prompts = 0
    /\ calls = 0
    /\ ToolingOff
    /\ \/ \E outputs \in Lists(UserPromptSubmitHookOutputs) :
             hooked = [event |-> "UserPromptSubmit", input |-> <<>>, outputs |-> outputs,
                       combined |-> <<>>]
       \/ \E outputs \in Lists(PostToolUseHookOutputs) :
             hooked = [event |-> "PostToolUse", input |-> <<>>, outputs |-> outputs,
                       combined |-> <<>>]
       \/ \E outputs \in Lists(PreToolUseHookOutputs) :
             hooked = [event |-> "PreToolUse", input |-> <<>>, outputs |-> outputs,
                       combined |-> <<>>]

Combining(event) == mini = "off" /\ mode = "off" /\ hooked.event = event /\ hooked.combined = <<>>

CombineUserPromptSubmit ==
    /\ UNCHANGED tooling
    /\ Combining("UserPromptSubmit")
    /\ hooked' = [hooked EXCEPT !.combined = <<UserPromptSubmitCombine(hooked.outputs)>>]
    /\ UNCHANGED <<smallchat, envs, loops, mini, events, inputs>>

CombinePostToolUse ==
    /\ UNCHANGED tooling
    /\ Combining("PostToolUse")
    /\ hooked' = [hooked EXCEPT !.combined = <<PostToolUseCombine(hooked.outputs)>>]
    /\ UNCHANGED <<smallchat, envs, loops, mini, events, inputs>>

CombinePreToolUse ==
    /\ UNCHANGED tooling
    /\ Combining("PreToolUse")
    /\ hooked' = [hooked EXCEPT !.combined = <<PreToolUseCombine(hooked.outputs)>>]
    /\ UNCHANGED <<smallchat, envs, loops, mini, events, inputs>>

NextCombine ==
    \/ CombineUserPromptSubmit
    \/ CombinePostToolUse
    \/ CombinePreToolUse

SpecCombine == InitCombine /\ [][NextCombine]_vars

-----------------------------------------------------------------------------
(* The Session on its own (src/session.py): agents are created one by one, *)
(* under names that repeat, that normalise to the same id, that are the id *)
(* _make_agent_id generated for an earlier agent, or that normalise to     *)
(* 'user'; and Session.load is given log files, some of them with a record *)
(* that lacks a field or has an unknown event type.                        *)

AgentNames == {"a", "A_", "a1", "User"}

(* An Agent is constructed, registered with its parent and logged, as      *)
(* Agent.task does in lines 149-151 (Agent.hook logs its agent under the   *)
(* same name every time, so the name may be in use).                       *)
CreateAgent ==
    /\ UNCHANGED tooling
    /\ mode = "input"
    /\ nagents < MaxAgents
    /\ \E parent \in 1..nagents : \E name \in AgentNames :
          LET S1 == NewAgent(Cur)
              S2 == [S1 EXCEPT !.subagents[parent] = DictSet(@, name, S1.nagents)]
              S3 == LogAgentCreated(S2, S1.nagents, name, parent, CauseStr("user"), "child")
          IN Commit(S3)
    /\ UNCHANGED <<stack, mode, exc, returned, verdicts>>
    /\ UNCHANGED mini_agent
    /\ UNCHANGED inputs

(* A log file with one record damaged: a key is missing, or the event type *)
(* is not one that Session.load knows.                                     *)
Without(r, k) == [j \in DOMAIN r \ {k} |-> r[j]]
Damaged(log) ==
    {[log EXCEPT ![i] = Without(@, k)] : i \in 1..Len(log), k \in {"message_id", "event_type",
         "agent", "role", "content", "name", "parent", "language_model", "cause"}}
        \cup {[log EXCEPT ![i].event_type = "note"] : i \in 1..Len(log)}

(* The program is about to be started on a log file an earlier run has     *)
(* left (get_session with --resume), damaged or not.                       *)
InitSaved ==
    /\ logfile \in {SavedLog} \cup Damaged(SavedLog)
    /\ next_message_id = 0
    /\ agent_id = <<>>
    /\ interlocutor = 0
    /\ nagents = 0
    /\ transcript = <<>>
    /\ subagents = <<>>
    /\ hooks = <<>>
    /\ attrs = <<>>
    /\ stack = <<>>
    /\ mode = "off"
    /\ exc = [error |-> "", call |-> "", agent |-> 0]
    /\ returned = {}
    /\ verdicts = {}
    /\ envs = <<>>
    /\ loops = <<>>
    /\ mini = "off"
    /\ hooked = NoHooks
    /\ events = <<>>
    /\ prompts = 0
    /\ calls = 0
    /\ ToolingOff

(* get_session: Session.load(filename, construct_agent) of the file. An    *)
(* exception raised in load leaves the process without a session.          *)
LoadSaved ==
    /\ UNCHANGED tooling
    /\ mode = "off"
    /\ logfile # <<>>
    /\ \E S1 \in {Load(logfile)} :
          IF S1.raised = ""
          THEN /\ Commit(S1)
               /\ mode' = "input"
               /\ UNCHANGED exc
          ELSE /\ mode' = "crashed"
               /\ exc' = [error |-> S1.raised, call |-> "", agent |-> 0]
               /\ UNCHANGED <<logfile, next_message_id, agent_id, interlocutor, nagents,
                              transcript, subagents, hooks, attrs>>
    /\ UNCHANGED <<stack, returned, verdicts>>
    /\ UNCHANGED mini_agent
    /\ UNCHANGED inputs

InitSession == InitSmallchat \/ InitResumed \/ InitSaved

NextSession ==
    \/ CreateAgent
    \/ Resume
    \/ LoadSaved

SpecSession == InitSession /\ [][NextSession]_vars

-----------------------------------------------------------------------------
(* mini_agent with the calls of the model that raise made visible: the     *)
(* loop waits at input("... retry> ") and then goes round again.           *)

(* agentic_loop, lines 77-80: adapter.acompletion raises, nothing is       *)
(* appended, and the user is asked to press enter.                         *)
AcompletionRaises ==
    /\ UNCHANGED tooling
    /\ UNCHANGED inputs
    /\ InLoop("acompletion")
    /\ loops' = [loops EXCEPT ![Len(loops)] = [@ EXCEPT !.pc = "retry"]]
    /\ UNCHANGED <<envs, mini, hooked, events>>
    /\ UNCHANGED smallchat

(* Line 81: enter is pressed; continue, and the model is called again.     *)
Retry ==
    /\ UNCHANGED tooling
    /\ UNCHANGED inputs
    /\ InLoop("retry")
    /\ loops' = [loops EXCEPT ![Len(loops)] = [@ EXCEPT !.pc = "acompletion"]]
    /\ UNCHANGED <<envs, mini, hooked, events>>
    /\ UNCHANGED smallchat

NextLoop ==
    \/ UserPromptBlocked
    \/ UserPrompt
    \/ AcompletionRaises
    \/ Retry
    \/ AssistantTexts
    \/ AssistantToolUses
    \/ InvokeToolDenied
    \/ InvokeToolFails
    \/ InvokeTool
    \/ HandleAgentCallback
    \/ LoopReturnsToCallback
    \/ LoopReturnsToMain

SpecLoop == InitMiniAgent /\ [][NextLoop]_vars

-----------------------------------------------------------------------------
(* The programs around the engines, each on its own: the handlers of the   *)
(* work a tool delegates to mini_agent (handle_plan_callback,              *)
(* handle_bash_callback), try_repeatedly, the file tools of core_tools     *)
(* with their watcher thread, and the viewer's thread that tails the log.  *)

(* Neither smallchat nor mini_agent is the program run.                    *)
EnginesOff ==
    /\ logfile = <<>>
    /\ next_message_id = 0
    /\ agent_id = <<>>
    /\ interlocutor = 0
    /\ nagents = 0
    /\ transcript = <<>>
    /\ subagents = <<>>
    /\ hooks = <<>>
    /\ attrs = <<>>
    /\ stack = <<>>
    /\ mode = "off"
    /\ exc = [error |-> "", call |-> "", agent |-> 0]
    /\ returned = {}
    /\ verdicts = {}
    /\ envs = <<>>
    /\ loops = <<>>
    /\ mini = "off"
    /\ hooked = NoHooks
    /\ events = <<>>
    /\ prompts = 0
    /\ calls = 0

(* handle_plan_callback(env, callback) is called: the tool ExitPlanMode    *)
(* has answered with a PlanCallback; env.interactive is what from_argv     *)
(* made of --interactive and of stdin, and the planning flag is as the     *)
(* /plan command has left it.                                              *)
PlanCallback == [kind |-> "plan_callback", pc |-> "called", interactive |-> TRUE,
                 text_on_accept |-> "approved", text_on_reject |-> "rejected",
                 answer |-> <<>>, is_success |-> TRUE, result |-> <<>>]

InitPlanCallback ==
    /\ EnginesOff
    /\ RetryingOff
    /\ FileToolsOff
    /\ ViewerOff
    /\ process = NoProcess
    /\ in_plan_mode \in BOOLEAN
    /\ \E interactive \in BOOLEAN : callback = [PlanCallback EXCEPT !.interactive = interactive]

(* What the human types at "1. approve plan / 2. reject plan".             *)
Answers == {"1", "2", "", "yes"}

(* f"plan-mode://set/{'false' if is_success else 'true'}" and, in          *)
(* ClientSession.read_resource, in_plan_mode = (raw_input == "true") for   *)
(* the scheme plan-mode and the host set.                                  *)
PlanModeUri(is_success) ==
    [scheme |-> "plan-mode", host |-> "set", path |-> IF is_success THEN "false" ELSE "true"]
ReadResource(uri, flag) ==
    IF uri.scheme = "plan-mode" /\ uri.host = "set" THEN uri.path = "true" ELSE flag

(* handle_plan_callback: the plan is accepted unless the session is        *)
(* interactive and the human answers anything but "1"; the planning flag   *)
(* is set through the plan-mode resource.                                  *)
HandlePlanCallback ==
    /\ callback.kind = "plan_callback"
    /\ callback.pc = "called"
    /\ \E answer \in Answers :
          LET asked == callback.interactive
              is_success == ~(asked /\ answer # "1")
              result == <<TextMessageContent(IF is_success THEN callback.text_on_accept
                                             ELSE callback.text_on_reject)>>
          IN /\ callback' = [callback EXCEPT !.pc = "returned",
                                             !.answer = IF asked THEN <<answer>> ELSE <<>>,
                                             !.is_success = is_success,
                                             !.result = result]
             /\ in_plan_mode' = ReadResource(PlanModeUri(is_success), in_plan_mode)
    /\ UNCHANGED <<process, retrying, files, known_content_files, stale_content_files,
                   observer, file_call, file_calls, disk, watch>>
    /\ UNCHANGED <<smallchat, mini_agent, inputs>>


(* handle_bash_callback(callback): exit_code is written as a string, the   *)
(* return code in decimal or "timeout". The shell has been started by      *)
(* create_subprocess_shell with both outputs piped, the two read_stream    *)
(* tasks have been created, and the handler awaits p.wait() under the      *)
(* callback's timeout. The command may have started a descendant that      *)
(* inherited the pipes.                                                    *)
Timeouts == {10, 125}
BashCallback == [kind |-> "bash_callback", pc |-> "wait", timeout |-> 10,
                 exit_code |-> <<>>,
                 stdout_parts |-> <<>>, stderr_parts |-> <<>>,
                 stdout_task |-> "reading", stderr_task |-> "reading",
                 is_success |-> TRUE, result |-> <<>>]

InitBashCallback ==
    /\ EnginesOff
    /\ RetryingOff
    /\ FileToolsOff
    /\ ViewerOff
    /\ in_plan_mode = FALSE
    /\ \E timeout \in Timeouts : callback = [BashCallback EXCEPT !.timeout = timeout]
    /\ \E holder \in BOOLEAN : process = [alive |-> TRUE, returncode |-> 0, holder |-> holder,
                                          signals |-> <<>>]

BashUnchanged ==
    /\ UNCHANGED <<in_plan_mode, retrying, files, known_content_files, stale_content_files,
                   observer, file_call, file_calls, disk, watch>>
    /\ UNCHANGED <<smallchat, mini_agent, inputs>>

Streams == {"stdout", "stderr"}
Parts(stream) == IF stream = "stdout" THEN callback.stdout_parts ELSE callback.stderr_parts
Task(stream) == IF stream = "stdout" THEN callback.stdout_task ELSE callback.stderr_task
(* Somebody still holds the write end of the pipes.                        *)
PipesOpen == process.alive \/ process.holder

(* read_stream: stream.read returns a chunk that the shell or a descendant *)
(* has written; it is kept while less than MAX_OUTPUT has been captured,   *)
(* and otherwise ends the task.                                            *)
ReadChunk(stream) ==
    /\ callback.kind = "bash_callback"
    /\ callback.pc \in {"wait", "grace", "killed", "gather"}
    /\ Task(stream) = "reading"
    /\ PipesOpen
    /\ LET chunk == stream \o ToString(Len(Parts(stream)) + 1)
       IN IF Len(Parts(stream)) < MaxOutputChunks
          THEN callback' = IF stream = "stdout"
                           THEN [callback EXCEPT !.stdout_parts = Append(@, chunk)]
                           ELSE [callback EXCEPT !.stderr_parts = Append(@, chunk)]
          ELSE callback' = IF stream = "stdout"
                           THEN [callback EXCEPT !.stdout_task = "done"]
                           ELSE [callback EXCEPT !.stderr_task = "done"]
    /\ UNCHANGED process
    /\ BashUnchanged

(* read_stream: stream.read returns b'' once every write end is closed.    *)
EndOfFile(stream) ==
    /\ callback.kind = "bash_callback"
    /\ callback.pc \in {"wait", "grace", "killed", "gather"}
    /\ Task(stream) = "reading"
    /\ ~PipesOpen
    /\ callback' = IF stream = "stdout"
                   THEN [callback EXCEPT !.stdout_task = "done"]
                   ELSE [callback EXCEPT !.stderr_task = "done"]
    /\ UNCHANGED process
    /\ BashUnchanged

ReadStream == \E stream \in Streams : ReadChunk(stream) \/ EndOfFile(stream)

(* The shell exits: on its own with a return code, or by a signal.         *)
ProcessExits ==
    /\ callback.kind = "bash_callback"
    /\ process.alive
    /\ \E returncode \in IF process.signals = <<>> THEN {0, 1}
                         ELSE IF Last(process.signals) = "SIGKILL" THEN {-9} ELSE {-15, 0, 1} :
          process' = [process EXCEPT !.alive = FALSE, !.returncode = returncode]
    /\ UNCHANGED callback
    /\ BashUnchanged

(* A descendant of the shell that holds the pipes exits.                   *)
DescendantExits ==
    /\ callback.kind = "bash_callback"
    /\ process.holder
    /\ process' = [process EXCEPT !.holder = FALSE]
    /\ UNCHANGED callback
    /\ BashUnchanged

(* exit_code = await asyncio.wait_for(p.wait(), callback.timeout)          *)
WaitReturns ==
    /\ callback.kind = "bash_callback"
    /\ callback.pc = "wait"
    /\ ~process.alive
    /\ callback' = [callback EXCEPT !.pc = "gather", !.exit_code = <<ToString(process.returncode)>>]
    /\ UNCHANGED process
    /\ BashUnchanged

(* except asyncio.TimeoutError: p.terminate(), then await p.wait() for 5 s *)
WaitTimesOut ==
    /\ callback.kind = "bash_callback"
    /\ callback.pc = "wait"
    /\ process.alive
    /\ process' = [process EXCEPT !.signals = Append(@, "SIGTERM")]
    /\ callback' = [callback EXCEPT !.pc = "grace"]
    /\ BashUnchanged

(* The shell exits within the grace period: exit_code = "timeout".         *)
GraceReturns ==
    /\ callback.kind = "bash_callback"
    /\ callback.pc = "grace"
    /\ ~process.alive
    /\ callback' = [callback EXCEPT !.pc = "gather", !.exit_code = <<"timeout">>]
    /\ UNCHANGED process
    /\ BashUnchanged

(* except BaseException: p.kill(), then await p.wait()                     *)
GraceTimesOut ==
    /\ callback.kind = "bash_callback"
    /\ callback.pc = "grace"
    /\ process.alive
    /\ process' = [process EXCEPT !.signals = Append(@, "SIGKILL")]
    /\ callback' = [callback EXCEPT !.pc = "killed"]
    /\ BashUnchanged

KilledReturns ==
    /\ callback.kind = "bash_callback"
    /\ callback.pc = "killed"
    /\ ~process.alive
    /\ callback' = [callback EXCEPT !.pc = "gather", !.exit_code = <<"timeout">>]
    /\ UNCHANGED process
    /\ BashUnchanged

(* f"{callback.timeout:0.1f}", the timeout counted in tenths of a second.  *)
FormatTimeout(timeout) == ToString(timeout \div 10) \o "." \o ToString(timeout % 10)

(* The text of the result, as the list of its pieces.                      *)
BashText(exit_code, timeout, stdout, stderr) ==
    IF exit_code = "timeout"
    THEN <<"Command timed out after ", FormatTimeout(timeout), "s", "\n">> \o stderr \o <<"\n">> \o stdout
    ELSE IF exit_code = "0" THEN stdout \o <<"\n">> \o stderr
    ELSE stderr \o <<"\n">> \o stdout

(* b''.join(parts).decode('utf-8', errors='replace')[:MAX_OUTPUT]          *)
Truncated(parts) ==
    IF Len(parts) > MaxOutputChunks THEN SubSeq(parts, 1, MaxOutputChunks) ELSE parts

(* stdout, stderr = await asyncio.gather(stdout_task, stderr_task), and    *)
(* the result returned.                                                    *)
Gather ==
    /\ callback.kind = "bash_callback"
    /\ callback.pc = "gather"
    /\ callback.stdout_task = "done"
    /\ callback.stderr_task = "done"
    /\ LET exit_code == callback.exit_code[1]
           stdout == Truncated(callback.stdout_parts)
           stderr == Truncated(callback.stderr_parts)
       IN callback' = [callback EXCEPT
              !.pc = "returned",
              !.is_success = (exit_code = "0"),
              !.result = <<TextMessageContent(BashText(exit_code, callback.timeout, stdout, stderr))>>]
    /\ UNCHANGED process
    /\ BashUnchanged

HandleBashCallback ==
    \/ WaitReturns
    \/ WaitTimesOut
    \/ GraceReturns
    \/ GraceTimesOut
    \/ KilledReturns
    \/ Gather

(* try_repeatedly(async_func) is called: attempt = 0 and the first call of *)
(* the operation is under way. A failure is an Exception raised by the     *)
(* operation; the operation fails at most MaxAttempts times in a row.      *)
InitTryRepeatedly ==
    /\ EnginesOff
    /\ CallbacksOff
    /\ FileToolsOff
    /\ ViewerOff
    /\ retrying = [pc |-> "calling", attempt |-> 0, calls |-> 1, slept |-> <<>>,
                   result |-> <<>>]

RetryingUnchanged ==
    /\ UNCHANGED <<in_plan_mode, callback, process, files, known_content_files,
                   stale_content_files, observer, file_call, file_calls, disk, watch>>
    /\ UNCHANGED <<smallchat, mini_agent, inputs>>

(* A variant that differs from the code: the delay is not capped.          *)
DelayUncapped(attempt) == 2 ^ (attempt - 1)

(* delay = min(2 ** (attempt - 1), 60)                                     *)
Delay(attempt) == IF 2 ^ (attempt - 1) < 60 THEN 2 ^ (attempt - 1) ELSE 60

(* return await async_func(): the operation returns its result.            *)
OperationSucceeds ==
    /\ retrying.pc = "calling"
    /\ retrying' = [retrying EXCEPT !.pc = "returned",
                                    !.result = <<"result" \o ToString(retrying.calls)>>]
    /\ RetryingUnchanged

(* except Exception: attempt += 1 and asyncio.sleep(delay) is begun.       *)
OperationFails ==
    /\ retrying.pc = "calling"
    /\ retrying.attempt < MaxAttempts
    /\ LET attempt == retrying.attempt + 1
           delay == Delay(attempt)
       IN retrying' = [retrying EXCEPT !.pc = "sleeping", !.attempt = attempt,
                                       !.slept = Append(@, delay)]
    /\ RetryingUnchanged

(* The sleep is over: while True goes round and calls async_func() anew.   *)
SleepEnds ==
    /\ retrying.pc = "sleeping"
    /\ retrying' = [retrying EXCEPT !.pc = "calling", !.calls = @ + 1]
    /\ RetryingUnchanged

TryRepeatedly ==
    \/ OperationSucceeds
    \/ OperationFails
    \/ SleepEnds

(* The log file and the viewer. A text is a list of characters and of      *)
(* pieces that hold no newline, quote or brace; the file is such a list.   *)
(* Session._write appends json.dumps(log) + '\n\n' through an unlocked     *)
(* open(..., 'a'), and server.watch_session_file, a thread of the same     *)
(* process, reads what the file holds beyond last_position.                *)
Contents == {<<"hello">>, <<"one", "\n", "two">>}

(* json.dumps of a record with that message_id and content: one object,    *)
(* a newline of the content written as the escape \n.                      *)
Escaped(text) == [i \in 1..Len(text) |-> IF text[i] = "\n" THEN "\\n" ELSE text[i]]
Dumps(message_id, content) ==
    <<"{", "message_id:" \o ToString(message_id), "content:">> \o Escaped(content) \o <<"}">>

(* json.loads(line) succeeds on one whole object.                          *)
IsJson(line) ==
    /\ Len(line) >= 2
    /\ line[1] = "{"
    /\ Last(line) = "}"
    /\ \A i \in 2..(Len(line) - 1) : line[i] \notin {"{", "}", "\n"}

(* text.strip(), for the whitespace there is: newlines.                    *)
RECURSIVE Strip(_)
Strip(text) ==
    IF text = <<>> THEN <<>>
    ELSE IF Head(text) = "\n" THEN Strip(Tail(text))
    ELSE IF Last(text) = "\n" THEN Strip(SubSeq(text, 1, Len(text) - 1))
    ELSE text

(* text.split('\n')                                                        *)
RECURSIVE SplitLines(_)
SplitLines(text) ==
    IF \A i \in 1..Len(text) : text[i] # "\n" THEN <<text>>
    ELSE LET i == CHOOSE j \in 1..Len(text) :
                     text[j] = "\n" /\ \A k \in 1..(j - 1) : text[k] # "\n"
         IN <<SubSeq(text, 1, i - 1)>> \o SplitLines(SubSeq(text, i + 1, Len(text)))

(* The events watch_session_file broadcasts for new_content: the lines of  *)
(* new_content.strip() that are not blank and that json.loads accepts.     *)
EventsOf(new_content) ==
    IF Strip(new_content) = <<>> THEN <<>>
    ELSE LET lines == SplitLines(Strip(new_content))
             Good(line) == Strip(line) # <<>> /\ IsJson(Strip(line))
             good == SelectSeq(lines, Good)
         IN [i \in 1..Len(good) |-> Strip(good[i])]

InitViewer ==
    /\ EnginesOff
    /\ CallbacksOff
    /\ RetryingOff
    /\ FileToolsOff
    /\ disk = [visible |-> <<>>, pending |-> <<>>]
    /\ watch = [last_position |-> 0, broadcast |-> <<>>, running |-> TRUE]

ViewerUnchanged ==
    /\ UNCHANGED <<in_plan_mode, callback, process, retrying, files, known_content_files,
                   stale_content_files, observer, file_call, file_calls>>
    /\ UNCHANGED <<smallchat, mini_agent, inputs>>

(* The records written so far.                                             *)
Written == Len(SelectSeq(disk.visible \o disk.pending, LAMBDA c : c = "{"))

(* Session._write: f.write(json.dumps(log) + '\n\n') and the close of the  *)
(* file hand the bytes of one record to the operating system.              *)
WriteRecord ==
    /\ watch.running
    /\ disk.pending = <<>>
    /\ Written < MaxRecords
    /\ \E content \in Contents :
          disk' = [disk EXCEPT !.pending = Dumps(Written + 1, content) \o <<"\n", "\n">>]
    /\ UNCHANGED watch
    /\ ViewerUnchanged

(* The write under way reaches the file: all of it, or a part of it first, *)
(* as nothing orders the write with a read by the other thread.            *)
FileGrows ==
    /\ watch.running
    /\ disk.pending # <<>>
    /\ \E n \in 1..Len(disk.pending) :
          disk' = [visible |-> disk.visible \o SubSeq(disk.pending, 1, n),
                   pending |-> SubSeq(disk.pending, n + 1, Len(disk.pending))]
    /\ UNCHANGED watch
    /\ ViewerUnchanged

(* One round of watch_session_file on a file that has changed: read from   *)
(* last_position to the end, move last_position there, broadcast the       *)
(* events parsed.                                                          *)
WatchSessionFile ==
    /\ watch.running
    /\ Len(disk.visible) > watch.last_position
    /\ LET new_content == SubSeq(disk.visible, watch.last_position + 1, Len(disk.visible))
       IN watch' = [watch EXCEPT !.last_position = Len(disk.visible),
                                 !.broadcast = @ \o EventsOf(new_content)]
    /\ UNCHANGED disk
    /\ ViewerUnchanged

(* The file tools of core_tools (Read, Write, Edit, MultiEdit) on the      *)
(* files of the working directory, which the watchdog thread of            *)
(* HaveReadFilesWatcher observes. A file holds one word; files[path] is    *)
(* <<>> for a file that does not exist. A tool that writes is two steps of *)
(* the main thread, up to write_text and from there to its return, and     *)
(* the watchdog thread may run on_modified before, between or after them.  *)
Paths == {"f"}
Words == {"foo", "bar"}
OneEdits == {[old_string |-> "foo", new_string |-> "bar"],
             [old_string |-> "foo", new_string |-> "foo"],
             [old_string |-> "", new_string |-> "foo"]}
EditLists == {<<>>} \cup {<<edit>> : edit \in OneEdits}

(* No call of a file tool is under way.                                    *)
NoFileCall == [name |-> "", pc |-> "idle"]

InitFileTools ==
    /\ EnginesOff
    /\ CallbacksOff
    /\ RetryingOff
    /\ ViewerOff
    /\ files \in [Paths -> {<<>>} \cup {<<word>> : word \in Words}]
    /\ known_content_files = {}
    /\ stale_content_files = {}
    /\ observer = <<>>
    /\ file_call = NoFileCall
    /\ file_calls = <<>>

FileToolsUnchanged ==
    /\ UNCHANGED <<in_plan_mode, callback, process, retrying, disk, watch>>
    /\ UNCHANGED <<smallchat, mini_agent, inputs>>

Exists(path) == files[path] # <<>>
(* A variant that differs from the code: a stale file counts as read.      *)
NotKnown(path) == path \notin known_content_files

(* file_path not in known_content_files or file_path in stale_content_files *)
NotRead(path) == path \notin known_content_files \/ path \in stale_content_files

(* A tool returns: its call, with the result, joins the history.           *)
ToolReturns(name, path, input, is_success, text) ==
    file_calls' = Append(file_calls, [name |-> name, path |-> path, input |-> input,
                                      is_success |-> is_success, text |-> text])

(* A tool that has no more to do than to return, changing nothing.         *)
Fails(name, path, input, text) ==
    /\ ToolReturns(name, path, input, FALSE, text)
    /\ UNCHANGED <<files, known_content_files, stale_content_files, observer, file_call>>

(* file_path.write_text(content): the file is written and the file system  *)
(* has an event for the watchdog thread; the tool has yet to update        *)
(* known_content_files and to return.                                      *)
WriteText(name, impl, path, input, content, text) ==
    /\ files' = [files EXCEPT ![path] = <<content>>]
    /\ observer' = Append(observer, path)
    /\ file_call' = [name |-> name, impl |-> impl, pc |-> "written", path |-> path,
                     input |-> input, text |-> text]
    /\ UNCHANGED <<known_content_files, stale_content_files, file_calls>>

(* read_impl                                                               *)
ReadImpl ==
    /\ file_call = NoFileCall
    /\ Len(file_calls) < MaxFileCalls
    /\ \E path \in Paths :
          IF ~Exists(path)
          THEN Fails("Read", path, <<>>, "<tool_use_error>File does not exist.</tool_use_error>")
          ELSE /\ known_content_files' = known_content_files \cup {path}
               /\ stale_content_files' = stale_content_files \ {path}
               /\ ToolReturns("Read", path, <<>>, TRUE, files[path][1])
               /\ UNCHANGED <<files, observer, file_call>>
    /\ FileToolsUnchanged

(* write_impl, up to write_text                                            *)
WriteChecks(name, path, input, content) ==
    IF Exists(path) /\ NotRead(path)
    THEN Fails(name, path, input,
               "Error: File has not been read yet.\nRead it first before writing to it.")
    ELSE WriteText(name, "write_impl", path, input, content,
                   IF Exists(path) THEN "The file has been updated."
                   ELSE "File created successfully")

WriteImpl ==
    /\ file_call = NoFileCall
    /\ Len(file_calls) < MaxFileCalls
    /\ \E path \in Paths : \E content \in Words :
          WriteChecks("Write", path, <<content>>, content)
    /\ FileToolsUnchanged

(* old_content.count(edit.old_string), for files of one word               *)
Count(old_content, old_string) ==
    IF old_string = "" THEN Len(old_content) + 1
    ELSE Len(SelectSeq(old_content, LAMBDA word : word = old_string))

(* old_content.replace(edit.old_string, edit.new_string), for a            *)
(* old_string that is not empty                                            *)
Replaced(old_content, edit) ==
    [i \in 1..Len(old_content) |->
        IF old_content[i] = edit.old_string THEN edit.new_string ELSE old_content[i]]

(* one_edit_check                                                          *)
OneEditCheck(path, old_content, edit) ==
    LET count == Count(old_content, edit.old_string)
    IN IF ~Exists(path) /\ edit.old_string = "" THEN "WRITE"
       ELSE IF ~Exists(path) THEN "File does not exist."
       ELSE IF NotRead(path)
            THEN "Error: File has not been read yet. Read it first before writing to it."
       ELSE IF edit.old_string = edit.new_string
            THEN "No changes to make: old_string and new_string are exactly the same."
       ELSE IF count = 0 THEN "String to replace not found in file."
       ELSE IF count > 1 THEN "Found matches of the string to replace, but replace_all is false."
       ELSE "None"

(* edit_impl, up to write_text                                             *)
EditImpl ==
    /\ file_call = NoFileCall
    /\ Len(file_calls) < MaxFileCalls
    /\ \E path \in Paths : \E edit \in OneEdits :
          LET old_content == files[path]
              error == OneEditCheck(path, old_content, edit)
          IN IF error = "WRITE" THEN WriteChecks("Edit", path, edit, edit.new_string)
             ELSE IF error # "None" THEN Fails("Edit", path, edit, error)
             ELSE WriteText("Edit", "edit_impl", path, edit, Replaced(old_content, edit)[1],
                            "The file has been updated.")
    /\ FileToolsUnchanged

(* multiedit_impl: the error it settles on, "None" if there is none        *)
MultiEditError(path, edits) ==
    LET old_content == files[path]
        Any1(P(_)) == \E i \in 1..Len(edits) : P(edits[i])
        first == IF Len(edits) = 0 THEN "Error: at least one edit is required."
                 ELSE IF Any1(LAMBDA edit : edit.old_string = "")
                      THEN "Error: old_string cannot be empty."
                 ELSE IF Any1(LAMBDA edit : edit.old_string = edit.new_string)
                      THEN "No changes to make: old_string and new_string are exactly the same."
                 ELSE IF ~Exists(path) THEN "Error: file does not exist."
                 ELSE IF NotRead(path)
                      THEN "Error: file has not been read yet. Read it first before writing to it."
                 ELSE IF Any1(LAMBDA edit : Count(old_content, edit.old_string) = 0)
                      THEN "String to replace not found in file."
                 ELSE "None"
        second == IF first = "None"
                     /\ \E i, j \in 1..Len(edits) : edits[i].old_string = edits[j].new_string
                  THEN "Cannot edit file: old_string is a substring of a new_string from a previous edit."
                  ELSE first
    IN IF second # "None" \/ Len(edits) = 0 THEN second
       ELSE OneEditCheck(path, old_content, edits[1])

(* multiedit_impl, up to write_text                                        *)
MultiEditImpl ==
    /\ file_call = NoFileCall
    /\ Len(file_calls) < MaxFileCalls
    /\ \E path \in Paths : \E edits \in EditLists :
          LET error == MultiEditError(path, edits)
          IN IF error # "None" THEN Fails("MultiEdit", path, edits, error)
             ELSE WriteText("MultiEdit", "multiedit_impl", path, edits,
                            Replaced(files[path], edits[1])[1], "Applied 1 edit")
    /\ FileToolsUnchanged

(* stale_content_files.discard(file_path) is in write_impl alone.          *)
Discards(impl) == impl = "write_impl"

(* After write_text: known_content_files[file_path] = ..., in write_impl   *)
(* stale_content_files.discard(file_path), and the tool returns.           *)
FileToolReturns ==
    /\ file_call.pc = "written"
    /\ known_content_files' = known_content_files \cup {file_call.path}
    /\ stale_content_files' = IF Discards(file_call.impl)
                              THEN stale_content_files \ {file_call.path}
                              ELSE stale_content_files
    /\ ToolReturns(file_call.name, file_call.path, file_call.input, TRUE, file_call.text)
    /\ file_call' = NoFileCall
    /\ UNCHANGED <<files, observer>>
    /\ FileToolsUnchanged

(* HaveReadFilesWatcher.on_modified, on the watchdog thread, for the       *)
(* oldest event not yet delivered.                                         *)
OnModified ==
    /\ observer # <<>>
    /\ LET path == Head(observer)
       IN stale_content_files' = IF path \in known_content_files
                                 THEN stale_content_files \cup {path}
                                 ELSE stale_content_files
    /\ observer' = Tail(observer)
    /\ UNCHANGED <<files, known_content_files, file_call, file_calls>>
    /\ FileToolsUnchanged

(* HaveReadFilesWatcher.file_changed_hook, at a user prompt: the stale     *)
(* files are read anew and stale_content_files is cleared.                 *)
FileChangedHook ==
    /\ file_call = NoFileCall
    /\ file_calls # <<>>
    /\ stale_content_files' = {}
    /\ UNCHANGED <<files, known_content_files, observer, file_call, file_calls>>
    /\ FileToolsUnchanged

(* Somebody else, the user in an editor, writes a file of the directory.   *)
UserModifies ==
    /\ file_call.pc # "off"
    /\ Len(file_calls) < MaxFileCalls
    /\ \E path \in Paths : \E content \in Words :
          /\ files' = [files EXCEPT ![path] = <<content>>]
          /\ observer' = Append(observer, path)
          /\ ToolReturns("user", path, <<content>>, TRUE, "")
    /\ UNCHANGED <<known_content_files, stale_content_files, file_call>>
    /\ FileToolsUnchanged

NextFileTools ==
    \/ ReadImpl
    \/ WriteImpl
    \/ EditImpl
    \/ MultiEditImpl
    \/ FileToolReturns
    \/ OnModified
    \/ FileChangedHook
    \/ UserModifies

SpecFileTools == InitFileTools /\ [][NextFileTools]_vars

InitTools ==
    \/ InitPlanCallback
    \/ InitViewer
    \/ InitTryRepeatedly
    \/ InitBashCallback

NextTools ==
    \/ HandlePlanCallback
    \/ HandleBashCallback
    \/ ReadStream
    \/ ProcessExits
    \/ DescendantExits
    \/ TryRepeatedly
    \/ WriteRecord
    \/ FileGrows
    \/ WatchSessionFile

SpecTools == InitTools /\ [][NextTools]_vars

(* The event loop runs every coroutine that can go on, a stream whose      *)
(* write ends are all closed reports its end, the shell exits in the end,  *)
(* an operation called comes to its end and a sleep is over in the end;    *)
(* nothing makes a descendant of the shell exit, or write.                 *)
FairTools ==
    /\ WF_vars(HandlePlanCallback)
    /\ WF_vars(HandleBashCallback)
    /\ WF_vars(EndOfFile("stdout"))
    /\ WF_vars(EndOfFile("stderr"))
    /\ WF_vars(ProcessExits)
    /\ WF_vars(OperationSucceeds \/ OperationFails)
    /\ WF_vars(SleepEnds)

SpecToolsFair == SpecTools /\ FairTools


-----------------------------------------------------------------------------
(* The combine operations on the reasons of the hooks: every list of up to *)
(* MaxHooks outputs that differ in their decisions and reasons is given to *)
(* the combine of its event.                                               *)

(* What a UserPromptSubmit or PostToolUse hook may answer: no decision,    *)
(* with a reason or without, or block with a reason, with another one,     *)
(* with the empty one or with none.                                        *)
ReasonsGiven ==
    {<< <<>>, <<>> >>, << <<>>, <<"fyi">> >>, << <<"block">>, <<"no">> >>,
     << <<"block">>, <<"never">> >>, << <<"block">>, <<"">> >>, << <<"block">>, <<>> >>}

UserPromptSubmitReasons ==
    {UserPromptSubmitHookOutput(d, <<TRUE, <<>> >>, ContextNone, ContextNone) : d \in ReasonsGiven}

PostToolUseReasons ==
    {PostToolUseHookOutput(<<TRUE, <<>> >>, d) : d \in ReasonsGiven}

(* What a PreToolUse hook may answer: a legacy decision with its reason or *)
(* none, and a permissionDecision with its permissionDecisionReason.       *)
PreToolUseReasons ==
    {PreToolUseHookOutput(TRUE, d, pd) :
        d \in {<< <<>>, <<>> >>, << <<"approve">>, <<"fine">> >>, << <<"block">>, <<"legacy">> >>},
        pd \in {<< <<>>, <<>> >>, << <<"allow">>, <<"safe">> >>, << <<"ask">>, <<"sure">> >>,
                << <<"deny">>, <<"why">> >>, << <<"deny">>, <<"never">> >>, << <<"deny">>, <<>> >>}}

InitReasons ==
    /\ logfile = <<>>
    /\ next_message_id = 0
    /\ agent_id = <<>>
    /\ interlocutor = 0
    /\ nagents = 0
    /\ transcript = <<>>
    /\ subagents = <<>>
    /\ hooks = <<>>
    /\ attrs = <<>>
    /\ stack = <<>>
    /\ mode = "off"
    /\ exc = [error |-> "", call |-> "", agent |-> 0]
    /\ returned = {}
    /\ verdicts = {}
    /\ envs = <<>>
    /\ loops = <<>>
    /\ mini = "off"
    /\ events = <<>>
    /\ prompts = 0
    /\ calls = 0
    /\ ToolingOff
    /\ \/ \E outputs \in Lists(UserPromptSubmitReasons) :
             hooked = [event |-> "UserPromptSubmit", input |-> <<>>, outputs |-> outputs,
                       combined |-> <<>>]
       \/ \E outputs \in Lists(PostToolUseReasons) :
             hooked = [event |-> "PostToolUse", input |-> <<>>, outputs |-> outputs,
                       combined |-> <<>>]
       \/ \E outputs \in Lists(PreToolUseReasons) :
             hooked = [event |-> "PreToolUse", input |-> <<>>, outputs |-> outputs,
                       combined |-> <<>>]

SpecReasons == InitReasons /\ [][NextCombine]_vars

-----------------------------------------------------------------------------
(* mini_agent started again on its transcript file (--resume): the file is *)
(* read back by adapter.parse_transcript_file (src/v1/adapter.py).         *)

(* append_to_transcript_file, lines 169-175: what is written as the        *)
(* "content" of the line of a content block: the text of a text block as a *)
(* JSON string, the model_dump of any other block as a JSON object.        *)
JsonContent(content_block) ==
    IF IsText(content_block)
    THEN [json |-> "str", text |-> content_block.text]
    ELSE [json |-> "dict", dump |-> content_block]

(* Line 187, "toolUseResult" of a user line: content_block is a str or a   *)
(* dict and has no attribute 'type', so None is written.                   *)
ToolUseResultWritten(content_block) == <<>>

(* parse_message_content: a string is returned as it is; of anything else  *)
(* the elements are taken for dicts, and the elements of a JSON object are *)
(* its keys, strings, whose .get raises AttributeError.                    *)
ParseMessageContent(raw_content) ==
    IF raw_content.json = "str"
    THEN [raised |-> "", content |-> raw_content.text]
    ELSE [raised |-> "AttributeError", content |-> ""]

(* Lines 215-224, one line of the file: the content is parsed and the item *)
(* is constructed; AssistantMessage.content (src/typedefs.py:21) is a list *)
(* and does not validate from a string. A user message whose content is a  *)
(* bare string is kept as its single text block.                           *)
ParseItem(line) ==
    LET parsed == ParseMessageContent(JsonContent(line.content))
    IN IF parsed.raised # "" THEN [raised |-> parsed.raised, item |-> <<>>]
       ELSE IF line.type = "assistant" THEN [raised |-> "ValidationError", item |-> <<>>]
       ELSE [raised |-> "",
             item |-> <<[type |-> "user", content |-> <<TextMessageContent(parsed.content)>>,
                         toolUseResult |-> ToolUseResultWritten(line.content)]>>]

(* Lines 226-244: an item that follows an item of its type is merged into  *)
(* it, content after content.                                              *)
Merged(result, item) ==
    IF result # <<>> /\ Last(result).type = item.type
    THEN [result EXCEPT ![Len(result)] =
             [item EXCEPT !.content = Last(result).content \o item.content,
                          !.toolUseResult = <<>>]]
    ELSE Append(result, item)

(* parse_transcript_file, from the lines still to read and the result so   *)
(* far: the result, or the exception raised.                               *)
RECURSIVE ParseLines(_, _)
ParseLines(lines, result) ==
    IF lines = <<>> THEN [raised |-> "", result |-> result]
    ELSE LET parsed == ParseItem(Head(lines))
         IN IF parsed.raised # "" THEN [raised |-> parsed.raised, result |-> <<>>]
            ELSE ParseLines(Tail(lines), Merged(result, parsed.item[1]))

ParseTranscriptFile(transcript_file) == ParseLines(transcript_file, <<>>)

(* The items as Env.transcript holds them.                                 *)
Items(result) == [i \in 1..Len(result) |-> [type |-> result[i].type, content |-> result[i].content]]

(* The process has ended, at its prompt or interrupted, and mini_agent is  *)
(* started with --resume on the transcript file of the main Env            *)
(* (Env.from_argv, lines 320-328): the file is parsed; an exception ends   *)
(* the process; otherwise main goes on with the transcript read, into      *)
(* agentic_loop if it ends with a user item (lines 46 and 56).             *)
ResumeTranscript ==
    /\ UNCHANGED tooling
    /\ UNCHANGED inputs
    /\ mini \in {"input", "running"}
    /\ envs[1].transcript_file # <<>>
    /\ LET parsed == ParseTranscriptFile(envs[1].transcript_file)
           tr == Items(parsed.result)
       IN IF parsed.raised # ""
          THEN /\ mini' = "crashed"
               /\ exc' = [error |-> parsed.raised, call |-> "", agent |-> 0]
               /\ envs' = <<[envs[1] EXCEPT !.transcript = <<>>]>>
               /\ loops' = <<>>
          ELSE /\ envs' = <<[envs[1] EXCEPT !.transcript = tr]>>
               /\ exc' = exc
               /\ IF tr # <<>> /\ Last(tr).type = "user"
                  THEN mini' = "running" /\ loops' = <<Loop(1)>>
                  ELSE mini' = "input" /\ loops' = <<>>
    /\ hooked' = NoHooks
    /\ UNCHANGED events
    /\ UNCHANGED <<logfile, next_message_id, agent_id, interlocutor, nagents, transcript,
                   subagents, hooks, attrs, stack, mode, returned, verdicts>>

NextResume == NextLoop \/ ResumeTranscript

SpecResume == InitMiniAgent /\ [][NextResume]_vars

-----------------------------------------------------------------------------
(* smallchat resumed on the log of a session whose interlocutor has two    *)
(* subagents: the rounds of discuss that follow one another.               *)

(* The log file an earlier run has left: one prompt, a turn of the model   *)
(* that requested task twice (the subagents "a" and "b", without a user    *)
(* prompt), and the interlocutor's utterance.                              *)
SavedTeam ==
    LET tool_calls == <<[id |-> "t1", name |-> "task"], [id |-> "t2", name |-> "task"]>>
        S1 == LoggedFragment(NewSession, User, "hello", CauseStr("user"))
        S2 == Harken(S1, S1.interlocutor, "user", TrackedString("hello", LastMsgId(S1)), <<>>)
        S3 == Assistant(S2, Frame(S2.interlocutor), tool_calls)
        f == [Frame(S2.interlocutor) EXCEPT !.msg_id = LastMsgId(S3), !.content = Utterance,
                                            !.calls = tool_calls, !.pc = "tools"]
        S4 == TaskCreate(S3, f, "a")
        S5 == ToolResult(S4, f, Str(TaskStatus(S4, f.agent, "a")))
        g == [f EXCEPT !.calls = Tail(tool_calls)]
        S6 == TaskCreate(S5, g, "b")
        S7 == ToolResult(S6, g, Str(TaskStatus(S6, g.agent, "b")))
    IN Assistant(S7, Frame(S2.interlocutor), <<>>).logfile

InitTeam ==
    /\ \E S \in {Load(SavedTeam)} :
          /\ logfile = S.logfile
          /\ next_message_id = S.next_message_id
          /\ agent_id = S.agent_id
          /\ interlocutor = S.interlocutor
          /\ nagents = S.nagents
          /\ transcript = S.transcript
          /\ subagents = S.subagents
          /\ hooks = S.hooks
          /\ attrs = S.attrs
    /\ stack = <<>>
    /\ mode = "input"
    /\ exc = [error |-> "", call |-> "", agent |-> 0]
    /\ returned = {}
    /\ verdicts = {}
    /\ envs = <<>>
    /\ loops = <<>>
    /\ mini = "off"
    /\ hooked = NoHooks
    /\ events = <<>>
    /\ prompts = 0
    /\ calls = 0
    /\ ToolingOff

NextTeam ==
    \/ Interact
    \/ CompletionUtterance
    \/ CompletionToolCalls
    \/ ToolMalformed
    \/ ToolTaskInUse
    \/ ToolHook
    \/ ToolReject
    \/ ToolReadLog
    \/ HookCheck
    \/ ReturnToHook
    \/ ReturnToUser
    \/ ToolDiscussRaise
    \/ ToolDiscussMute
    \/ ToolDiscuss
    \/ ReturnToDiscussSingle
    \/ ReturnToDiscussNext
    \/ ReturnToDiscussLast
    \/ Resume

SpecTeam == InitTeam /\ [][NextTeam]_vars

-----------------------------------------------------------------------------
(* handle_bash_callback and the pipes of the command: what the command     *)
(* writes stays in the pipe (the kernel's buffer and the StreamReader's)   *)
(* until a read_stream task takes it, and a write into a full pipe blocks. *)

(* The chunks a pipe holds before a write blocks.                          *)
PipeChunks == 1
(* The longest output of a command, in chunks: one chunk more than the     *)
(* read_stream task takes and the pipe then holds.                         *)
MaxCommandChunks == MaxOutputChunks + 1 + PipeChunks + 1

(* The command has code as its exit status and output[stream] chunks to    *)
(* write; todo[stream] of them are still to be written.                    *)
InitPipes ==
    /\ EnginesOff
    /\ RetryingOff
    /\ FileToolsOff
    /\ ViewerOff
    /\ in_plan_mode = FALSE
    /\ \E timeout \in Timeouts : callback = [BashCallback EXCEPT !.timeout = timeout]
    /\ \E code \in {0, 1}, output \in [Streams -> 0..MaxCommandChunks] :
          process = [alive |-> TRUE, returncode |-> 0, holder |-> FALSE, signals |-> <<>>,
                     code |-> code, output |-> output, todo |-> output,
                     pipe |-> [stream \in Streams |-> 0]]

CanWrite(stream) ==
    process.alive /\ process.todo[stream] > 0 /\ process.pipe[stream] < PipeChunks
CanExit == process.alive /\ \A stream \in Streams : process.todo[stream] = 0
CanRead(stream) == Task(stream) = "reading" /\ process.pipe[stream] > 0

(* The command writes a chunk to one of its outputs.                       *)
CommandWrites(stream) ==
    /\ callback.kind = "bash_callback"
    /\ CanWrite(stream)
    /\ process' = [process EXCEPT !.todo[stream] = @ - 1, !.pipe[stream] = @ + 1]
    /\ UNCHANGED callback
    /\ BashUnchanged

(* The command has written all of its output and exits.                    *)
CommandExits ==
    /\ callback.kind = "bash_callback"
    /\ CanExit
    /\ process' = [process EXCEPT !.alive = FALSE, !.returncode = process.code]
    /\ UNCHANGED callback
    /\ BashUnchanged

(* The command is ended by the signal sent to it.                          *)
CommandKilled ==
    /\ callback.kind = "bash_callback"
    /\ process.alive
    /\ process.signals # <<>>
    /\ process' = [process EXCEPT !.alive = FALSE,
                                  !.returncode = IF Last(process.signals) = "SIGKILL"
                                                 THEN -9 ELSE -15]
    /\ UNCHANGED callback
    /\ BashUnchanged

(* read_stream: stream.read returns a chunk from the pipe; it is kept      *)
(* while less than MAX_OUTPUT has been captured, and otherwise ends the    *)
(* task.                                                                   *)
ReadPipe(stream) ==
    /\ callback.kind = "bash_callback"
    /\ callback.pc \in {"wait", "grace", "killed", "gather"}
    /\ CanRead(stream)
    /\ LET chunk == stream \o ToString(Len(Parts(stream)) + 1)
       IN IF Len(Parts(stream)) < MaxOutputChunks
          THEN callback' = IF stream = "stdout"
                           THEN [callback EXCEPT !.stdout_parts = Append(@, chunk)]
                           ELSE [callback EXCEPT !.stderr_parts = Append(@, chunk)]
          ELSE callback' = IF stream = "stdout"
                           THEN [callback EXCEPT !.stdout_task = "done"]
                           ELSE [callback EXCEPT !.stderr_task = "done"]
    /\ process' = [process EXCEPT !.pipe[stream] = @ - 1]
    /\ BashUnchanged

(* read_stream: stream.read returns b'' once the command has gone and the  *)
(* pipe is empty.                                                          *)
EndOfPipe(stream) ==
    /\ callback.kind = "bash_callback"
    /\ callback.pc \in {"wait", "grace", "killed", "gather"}
    /\ Task(stream) = "reading"
    /\ ~process.alive
    /\ process.pipe[stream] = 0
    /\ callback' = IF stream = "stdout"
                   THEN [callback EXCEPT !.stdout_task = "done"]
                   ELSE [callback EXCEPT !.stderr_task = "done"]
    /\ UNCHANGED process
    /\ BashUnchanged

(* Neither the command nor a read_stream task can take a step.             *)
Stuck ==
    /\ ~CanExit
    /\ \A stream \in Streams : ~CanWrite(stream) /\ ~CanRead(stream)

(* The command is one that finishes within the timeout if nothing holds it *)
(* up: the timer of wait_for(p.wait(), callback.timeout) expires only when *)
(* neither the command nor a reader can go on.                             *)
WaitExpires ==
    /\ Stuck
    /\ WaitTimesOut

NextPipes ==
    \/ \E stream \in Streams : CommandWrites(stream)
    \/ CommandExits
    \/ CommandKilled
    \/ \E stream \in Streams : ReadPipe(stream)
    \/ \E stream \in Streams : EndOfPipe(stream)
    \/ WaitReturns
    \/ WaitExpires
    \/ GraceReturns
    \/ GraceTimesOut
    \/ KilledReturns
    \/ Gather

SpecPipes == InitPipes /\ [][NextPipes]_vars

-----------------------------------------------------------------------------
(* The viewer's server with its clients: the session appends records to    *)
(* the log file, watch_session_file polls the file and broadcasts what is  *)
(* new to the queues of the connected clients, and each request of /events *)
(* registers a queue, replays the file and then streams from its queue.    *)
(* A record is written and read as a whole here; disk.visible is the list  *)
(* of the message ids of the records in the file.                          *)

(* The requests of /events made while the server runs.                     *)
MaxClients == 2
(* q = queue.Queue(maxsize=100)                                            *)
QueueMaxsize == 100

(* start_server(session._log_filename): the session has written its first  *)
(* record, the watcher thread starts with last_position = last_mtime = 0.  *)
InitClients ==
    /\ EnginesOff
    /\ CallbacksOff
    /\ RetryingOff
    /\ FileToolsOff
    /\ disk = [visible |-> <<1>>, pending |-> <<>>, mtime |-> 1]
    /\ watch = [last_position |-> 0, last_mtime |-> 0, broadcast |-> <<>>, running |-> TRUE,
                clients |-> <<>>]

(* event_queues: the queues of the requests that are being served.         *)
Connected(client) == client.pc \in {"replay", "stream"}

(* Session._write appends one record. The file's modification time is the  *)
(* clock's reading at the write; two writes within one tick of the clock   *)
(* leave the same time.                                                    *)
AppendRecord ==
    /\ watch.running
    /\ Len(disk.visible) < MaxRecords + 1
    /\ \E tick \in {0, 1} :
          disk' = [disk EXCEPT !.visible = Append(@, Len(@) + 1), !.mtime = @ + tick]
    /\ UNCHANGED watch
    /\ ViewerUnchanged

(* q.put(event_data, block=False), and queue.Full passed over.             *)
Put(q, event_data) == IF Len(q) < QueueMaxsize THEN Append(q, event_data) ELSE q

RECURSIVE PutAll(_, _)
PutAll(q, events_) ==
    IF events_ = <<>> THEN q ELSE PutAll(Put(q, Head(events_)), Tail(events_))

(* One round of watch_session_file on a file whose modification time has   *)
(* increased: read from last_position to the end, and broadcast_event for  *)
(* each record read.                                                       *)
PollSessionFile ==
    /\ watch.running
    /\ disk.mtime > watch.last_mtime
    /\ LET new_content == SubSeq(disk.visible, watch.last_position + 1, Len(disk.visible))
       IN watch' = [watch EXCEPT
              !.last_mtime = disk.mtime,
              !.last_position = Len(disk.visible),
              !.broadcast = @ \o new_content,
              !.clients = [c \in DOMAIN @ |->
                              IF Connected(@[c]) THEN [@[c] EXCEPT !.q = PutAll(@, new_content)]
                              ELSE @[c]]]
    /\ UNCHANGED disk
    /\ ViewerUnchanged

(* events(): a client connects; its queue is appended to event_queues.     *)
ClientConnects ==
    /\ watch.running
    /\ Len(watch.clients) < MaxClients
    /\ watch' = [watch EXCEPT
           !.clients = Append(@, [pc |-> "replay", q |-> <<>>, received |-> <<>>])]
    /\ UNCHANGED disk
    /\ ViewerUnchanged

(* event_stream: every record of the file is sent to the client.           *)
ClientReplays(c) ==
    /\ watch.clients[c].pc = "replay"
    /\ watch' = [watch EXCEPT !.clients[c].pc = "stream",
                              !.clients[c].received = @ \o disk.visible]
    /\ UNCHANGED disk
    /\ ViewerUnchanged

(* event_stream: event = q.get(timeout=30), sent to the client.            *)
ClientStreams(c) ==
    /\ watch.clients[c].pc = "stream"
    /\ watch.clients[c].q # <<>>
    /\ watch' = [watch EXCEPT !.clients[c].q = Tail(@),
                              !.clients[c].received = Append(@, Head(watch.clients[c].q))]
    /\ UNCHANGED disk
    /\ ViewerUnchanged

(* event_stream, finally: the client has gone, its queue is removed.       *)
ClientDisconnects(c) ==
    /\ Connected(watch.clients[c])
    /\ watch' = [watch EXCEPT !.clients[c].pc = "gone", !.clients[c].q = <<>>]
    /\ UNCHANGED disk
    /\ ViewerUnchanged

NextClients ==
    \/ AppendRecord
    \/ PollSessionFile
    \/ ClientConnects
    \/ \E c \in DOMAIN watch.clients : ClientReplays(c)
    \/ \E c \in DOMAIN watch.clients : ClientStreams(c)
    \/ \E c \in DOMAIN watch.clients : ClientDisconnects(c)

SpecClients == InitClients /\ [][NextClients]_vars

-----------------------------------------------------------------------------
(* Properties *)

Has(r, k) == k \in DOMAIN r
IsEntry(r) == r.event_type = "transcript_entry"
IsToolRecord(r) == IsEntry(r) /\ r.role = "tool"
IsAssistantRecord(r) == IsEntry(r) /\ r.role = "assistant"
IsUtteranceRecord(r) == IsAssistantRecord(r) /\ ~Has(r, "tool_calls")
Position(id) == CHOOSE i \in 1..Len(logfile) : logfile[i].message_id = id
Logged(id) == \E i \in 1..Len(logfile) : logfile[i].message_id = id
LargestId(log) == SeqMax([i \in 1..Len(log) |-> ToInt(log[i].message_id)])

(* C1: the message ids of the records of the log file are, in file order,  *)
(* "0", "1", "2", ...: pairwise distinct, increasing and without a gap,    *)
(* whichever agents wrote them and whatever kind of record they are.       *)
C1_MessageIds == \A i \in 1..Len(logfile) : logfile[i].message_id = IdString[i - 1]

(* The end user and three agents at least have written, and the log holds  *)
(* a fragment of an agent, a tool result and the creation of a subagent.   *)
C1_Witness ==
    /\ Cardinality({logfile[i].agent : i \in 1..Len(logfile)}) >= 4
    /\ \E i \in 1..Len(logfile) : logfile[i].event_type = "fragment" /\ logfile[i].agent # "user"
    /\ \E i \in 1..Len(logfile) : IsToolRecord(logfile[i])
    /\ \E i \in 1..Len(logfile) : logfile[i].event_type = "agent_created" /\ logfile[i].parent # "user"

(* C2: Session.load leaves next_message_id at the largest message id of    *)
(* the log plus 1, and every record written to the file has an id greater  *)
(* than every id the file held before, also after a resume.                *)
C2_LoadNextMessageId ==
    [][/\ Resume => next_message_id' = LargestId(logfile) + 1
       /\ \A i \in (Len(logfile) + 1)..Len(logfile') :
             ToInt(logfile'[i].message_id) > LargestId(logfile)]_vars

(* The session was resumed and has written since: the interlocutor's hook  *)
(* is in the log but not attached (only load leaves that), and a prompt    *)
(* has been taken after it.                                                *)
C2_Witness ==
    /\ mode = "running"
    /\ hooks[interlocutor] = <<>>
    /\ \E i \in 1..Len(logfile) :
          /\ logfile[i].event_type = "agent_created"
          /\ logfile[i].role = "hook"
          /\ logfile[i].parent = agent_id[interlocutor]

(* C3: whenever interact waits for the end user's input, Session.load of   *)
(* the log written so far gives the live state: the same agents, the same  *)
(* transcripts, the same subagents dicts, the same hooks attached and the  *)
(* same interlocutor.                                                      *)
C3_ReplayReconstructs ==
    mode = "input" =>
        \A L \in {Load(logfile)} :
            /\ L.raised = ""
            /\ L.nagents = nagents
            /\ L.agent_id = agent_id
            /\ L.interlocutor = interlocutor
            /\ L.transcript = transcript
            /\ L.subagents = subagents
            /\ \A a \in 1..nagents :
                  [i \in 1..Len(L.hooks[a]) |-> L.hooks[a][i].internal]
                      = [i \in 1..Len(hooks[a]) |-> hooks[a][i].internal]

(* C4: no record of the log has both a substance and a cause.              *)
C4_SubstanceOrCause ==
    \A i \in 1..Len(logfile) : ~(Has(logfile[i], "substance") /\ Has(logfile[i], "cause"))

(* The log holds a tool result with a substance (task with a prompt), a    *)
(* tool result with a cause (discuss), a user entry with a substance, a    *)
(* system entry with a cause, and a fragment.                              *)
C4_Witness ==
    /\ \E i \in 1..Len(logfile) : IsToolRecord(logfile[i]) /\ Has(logfile[i], "substance")
    /\ \E i \in 1..Len(logfile) : IsToolRecord(logfile[i]) /\ Has(logfile[i], "cause")
    /\ \E i \in 1..Len(logfile) :
          IsEntry(logfile[i]) /\ logfile[i].role = "user" /\ Has(logfile[i], "substance")
    /\ \E i \in 1..Len(logfile) :
          IsEntry(logfile[i]) /\ logfile[i].role = "system" /\ Has(logfile[i], "cause")
    /\ \E i \in 1..Len(logfile) : logfile[i].event_type = "fragment"

(* The entries of a transcript from i on up to the next assistant entry.   *)
Following(tr, i) ==
    {j \in (i + 1)..Len(tr) : \A k \in (i + 1)..j : tr[k].role # "assistant"}

Paired(tr) ==
    /\ \A i \in 1..Len(tr) :
          (tr[i].role = "assistant" /\ Has(tr[i], "tool_calls")) =>
              \A k \in 1..Len(tr[i].tool_calls) :
                  Cardinality({j \in Following(tr, i) :
                                  tr[j].role = "tool"
                                  /\ tr[j].tool_call_id = tr[i].tool_calls[k].id}) = 1
    /\ \A j \in 1..Len(tr) :
          tr[j].role = "tool" =>
              \E i \in 1..(j - 1) :
                  /\ tr[i].role = "assistant" /\ Has(tr[i], "tool_calls")
                  /\ j \in Following(tr, i)
                  /\ \E k \in 1..Len(tr[i].tool_calls) : tr[i].tool_calls[k].id = tr[j].tool_call_id

(* The same for a transcript of mini_agent: the items alternate, and the   *)
(* user item after an assistant item has one result per tool use.          *)
UsesOf(item) == SelectSeq(item.content, IsToolUse)
ResultsIn(item) == SelectSeq(item.content, IsToolResult)
Answered(tr) ==
    /\ \A i \in 1..Len(tr) :
          (tr[i].type = "assistant" /\ UsesOf(tr[i]) # <<>>) =>
              /\ i < Len(tr) /\ tr[i + 1].type = "user"
              /\ \A k \in 1..Len(UsesOf(tr[i])) :
                    Cardinality({j \in 1..Len(tr[i + 1].content) :
                                    IsToolResult(tr[i + 1].content[j])
                                    /\ tr[i + 1].content[j].tool_use_id = UsesOf(tr[i])[k].id}) = 1
    /\ \A i \in 1..Len(tr) :
          (tr[i].type = "user" /\ ResultsIn(tr[i]) # <<>>) =>
              /\ i > 1 /\ tr[i - 1].type = "assistant"
              /\ \A j \in 1..Len(ResultsIn(tr[i])) :
                    \E k \in 1..Len(UsesOf(tr[i - 1])) :
                        UsesOf(tr[i - 1])[k].id = ResultsIn(tr[i])[j].tool_use_id

(* C5: whenever the language model is called, in the transcript it is      *)
(* given every request of every assistant entry has exactly one tool       *)
(* entry with its id before the next assistant entry, and every tool entry *)
(* has such a request; also in a session resumed from its log.             *)
C5_RequestsAnswered ==
    /\ Running("completion") => Paired(transcript[Top.agent])
    /\ InLoop("acompletion") => Answered(envs[Inner.env].transcript)

(* The tool results logged for the assistant record X, in file order, and  *)
(* the position of the result of X's k-th request (0: not logged).         *)
IsResultOf(r, X) == IsToolRecord(r) /\ Has(r, "tool_call") /\ r.tool_call = X
ResultsOf(X) ==
    LET Test(r) == IsResultOf(r, X) IN SelectSeq(logfile, Test)
ResultPosition(X, id) ==
    LET at == {i \in 1..Len(logfile) : IsResultOf(logfile[i], X) /\ logfile[i].tool_call_id = id}
    IN IF at = {} THEN 0 ELSE CHOOSE i \in at : \A j \in at : i <= j
IsPrefix(s, t) == Len(s) <= Len(t) /\ \A i \in 1..Len(s) : s[i] = t[i]
CausedBy(r, c) == Has(r, "cause") /\ \E i \in 1..Len(r.cause.ids) : r.cause.ids[i] = c

(* The results of one assistant record are logged after it, by its agent,  *)
(* in the order of its requests.                                           *)
ResultsInRequestOrder ==
    \A p \in 1..Len(logfile) :
        (IsAssistantRecord(logfile[p]) /\ Has(logfile[p], "tool_calls")) =>
            LET X == logfile[p].message_id
                req == logfile[p].tool_calls
                got == ResultsOf(X)
            IN /\ IsPrefix([i \in 1..Len(got) |-> got[i].tool_call_id],
                           [k \in 1..Len(req) |-> req[k].id])
               /\ \A i \in 1..Len(got) : got[i].agent = logfile[p].agent
               /\ \A q \in 1..p : ~IsResultOf(logfile[q], X)

(* What a request caused (the agent it created, the fragment it sent, the  *)
(* system prompt it gave) is logged after the result of the request before *)
(* it and before its own result.                                           *)
NestedRecordsWithinCall ==
    \A p \in 1..Len(logfile) :
        (IsAssistantRecord(logfile[p]) /\ Has(logfile[p], "tool_calls")) =>
            LET X == logfile[p].message_id
                req == logfile[p].tool_calls
            IN \A k \in 1..Len(req) :
                  LET call == X \o "." \o req[k].id
                      before == IF k > 1 THEN ResultPosition(X, req[k - 1].id) ELSE p
                      own == ResultPosition(X, req[k].id)
                  IN \A q \in 1..Len(logfile) :
                        CausedBy(logfile[q], call) =>
                            /\ q > p
                            /\ before # 0 /\ before < q
                            /\ own # 0 => q < own

(* A response that is running or awaiting a tool: the request at work is   *)
(* the first one without a result, in the log and in the transcript.       *)
DispatchInOrder ==
    \A d \in 1..Len(stack) :
        stack[d].pc \in {"tools", "await_task", "await_discuss"} =>
            LET f == stack[d]
                req == logfile[Position(f.msg_id)].tool_calls
                done == Len(ResultsOf(f.msg_id))
                tr == transcript[f.agent]
                n == Len(tr)
            IN /\ f.calls = SubSeq(req, done + 1, Len(req))
               /\ n > done
               /\ tr[n - done].role = "assistant" /\ Has(tr[n - done], "tool_calls")
               /\ tr[n - done].tool_calls = req
               /\ \A i \in 1..done :
                     tr[n - done + i].role = "tool" /\ tr[n - done + i].tool_call_id = req[i].id

(* mini_agent: the tool use at work is the first one invoke_tool has not  *)
(* returned for; what it has returned is held, in the order of the tool    *)
(* uses, and nothing of it is in the transcript yet, which still ends with *)
(* the assistant item; a loop that awaits a subagent is not the innermost  *)
(* one, a loop about to invoke a tool is.                                  *)
InvokedInOrder ==
    \A d \in 1..Len(loops) :
        loops[d].pc \in {"invoke_tool", "callback"} =>
            LET f == loops[d]
                tr == envs[f.env].transcript
            IN /\ Len(f.tool_results) < Len(f.tool_uses)
               /\ \A j \in 1..Len(f.tool_results) :
                     /\ IsToolResult(f.tool_results[j][1])
                     /\ f.tool_results[j][1].tool_use_id = f.tool_uses[j].id
               /\ tr # <<>> /\ Last(tr).type = "assistant" /\ UsesOf(Last(tr)) = f.tool_uses
               /\ (f.pc = "invoke_tool") = (d = Len(loops))

(* mini_agent: the user item after an assistant item with tool uses holds  *)
(* their results, one each, in the order of the tool uses, before any      *)
(* text; and the transcript file holds the blocks of the transcript, in    *)
(* order.                                                                  *)
ItemsInRequestOrder ==
    \A e \in 1..Len(envs) :
        LET tr == envs[e].transcript
        IN /\ \A i \in 1..(Len(tr) - 1) :
                 (tr[i].type = "assistant" /\ UsesOf(tr[i]) # <<>>) =>
                     /\ tr[i + 1].type = "user"
                     /\ [k \in 1..Len(ResultsIn(tr[i + 1])) |-> ResultsIn(tr[i + 1])[k].tool_use_id]
                            = [k \in 1..Len(UsesOf(tr[i])) |-> UsesOf(tr[i])[k].id]
                     /\ tr[i + 1].content = NonInterleaved(tr[i + 1].content)
           /\ envs[e].transcript_file
                  = Flatten([i \in 1..Len(tr) |-> AppendToTranscriptFile(<<>>, tr[i])])

(* mini_agent: a loop that is not running has returned: its transcript     *)
(* ends with an assistant item without tool uses (or is empty).            *)
LoopsComplete ==
    \A e \in 1..Len(envs) :
        (\A d \in 1..Len(loops) : loops[d].env # e) =>
            \/ envs[e].transcript = <<>>
            \/ Last(envs[e].transcript).type = "assistant" /\ UsesOf(Last(envs[e].transcript)) = <<>>

(* C6, as stated: in both engines a request is at work only when the       *)
(* results of the requests before it are in the transcript and in the log, *)
(* and the results are in request order.                                   *)
C6_ResultAppendedBeforeNext ==
    /\ ResultsInRequestOrder /\ NestedRecordsWithinCall /\ DispatchInOrder
    /\ ItemsInRequestOrder
    /\ \A d \in 1..Len(loops) :
          loops[d].pc \in {"invoke_tool", "callback"} =>
              \A j \in 1..Len(loops[d].tool_results) :
                  /\ \E i \in 1..Len(envs[loops[d].env].transcript) :
                        \E k \in 1..Len(envs[loops[d].env].transcript[i].content) :
                            LET c == envs[loops[d].env].transcript[i].content[k]
                            IN IsToolResult(c) /\ c.tool_use_id = loops[d].tool_uses[j].id
                  /\ \E i \in 1..Len(envs[loops[d].env].transcript_file) :
                        LET c == envs[loops[d].env].transcript_file[i].content
                        IN IsToolResult(c) /\ c.tool_use_id = loops[d].tool_uses[j].id

(* C6, as the code has it: in both engines the requests of one assistant   *)
(* turn are run one at a time in the order of the turn, each with the      *)
(* agents it starts run to their end before the next request is at work,   *)
(* and the results are in the transcript and in the log in request order.  *)
(* Agent.response appends the result of a request before the next one is   *)
(* at work; mini_agent.agentic_loop holds the results back and appends     *)
(* them together, as one user item, after the last request.                *)
C6_SequentialDispatch ==
    /\ ResultsInRequestOrder /\ NestedRecordsWithinCall /\ DispatchInOrder
    /\ InvokedInOrder /\ ItemsInRequestOrder /\ LoopsComplete

(* mini_agent: a turn with two tool uses, the first of which delegated to  *)
(* a subagent, is answered by one user item with the two results in order  *)
(* and a hook's text after them.                                           *)
C6_Witness ==
    /\ Len(envs) >= 2
    /\ \E i \in 1..Len(envs[1].transcript) :
          LET item == envs[1].transcript[i]
          IN /\ item.type = "user"
             /\ Len(ResultsIn(item)) = 2
             /\ ~ResultsIn(item)[1].is_error /\ ResultsIn(item)[1].content = Utterance
             /\ \E k \in 1..Len(item.content) : IsText(item.content[k])

(* Agent.response: a turn with two requests, both answered; between the    *)
(* turn and the first result a nested agent has spoken, and the second     *)
(* request caused a record of its own.                                     *)
C6_ResponseWitness ==
    \E p \in 1..Len(logfile) :
        /\ IsAssistantRecord(logfile[p]) /\ Has(logfile[p], "tool_calls")
        /\ Len(logfile[p].tool_calls) = 2
        /\ LET X == logfile[p].message_id
               q1 == ResultPosition(X, logfile[p].tool_calls[1].id)
               q2 == ResultPosition(X, logfile[p].tool_calls[2].id)
           IN /\ q1 # 0 /\ q2 # 0
              /\ \E q \in (p + 1)..(q1 - 1) :
                    IsUtteranceRecord(logfile[q]) /\ logfile[q].agent # logfile[p].agent
              /\ \E q \in (q1 + 1)..(q2 - 1) :
                    CausedBy(logfile[q], X \o "." \o logfile[p].tool_calls[2].id)

(* The transcript entries an agent has logged, in file order.              *)
EntriesOf(a) ==
    LET Test(r) == IsEntry(r) /\ r.agent = agent_id[a] IN SelectSeq(logfile, Test)
Note(problem) == "<system>" \o problem \o "</system>"

(* C7: a value Agent.response has returned is an utterance no hook         *)
(* rejected and every attached hook passed; a rejected utterance is        *)
(* followed, in the monitored agent's transcript, by the user entry        *)
(* <system>reason</system> and then by a new turn of the model, and it is  *)
(* not shown to a further hook.                                            *)
C7_NoRejectedUtterance ==
    /\ \A r \in returned :
          /\ \A v \in verdicts : (v.agent = r.agent /\ v.turn = r.turn) => v.problem = ""
          /\ \A h \in 1..r.nhooks :
                \E v \in verdicts : v.agent = r.agent /\ v.turn = r.turn /\ v.hook = h
    /\ \A v \in verdicts :
          v.problem # "" =>
              LET rs == EntriesOf(v.agent)
                  k == CHOOSE i \in 1..Len(rs) : rs[i].message_id = v.turn
              IN /\ k < Len(rs)
                 /\ rs[k + 1].role = "user" /\ rs[k + 1].content = Note(v.problem)
                 /\ IF k + 1 < Len(rs) THEN rs[k + 2].role = "assistant"
                    ELSE Running("completion") /\ Top.agent = v.agent
                 /\ \A w \in verdicts : (w.agent = v.agent /\ w.turn = v.turn) => w.hook <= v.hook
    /\ \A d \in 1..Len(stack) :
          stack[d].pc \in {"hooks", "await_hook"} =>
              \A v \in verdicts :
                  (v.agent = stack[d].agent /\ v.turn = stack[d].msg_id) => v.problem = ""

(* A hook has rejected an utterance of an agent, and a later utterance of  *)
(* that agent has passed the hook and has been returned.                   *)
C7_Witness ==
    \E v \in verdicts, r \in returned :
        /\ v.problem # ""
        /\ r.agent = v.agent /\ r.nhooks >= 1
        /\ ToInt(r.turn) > ToInt(v.turn)

(* The latest assistant record of an agent.                                *)
LatestTurn(a) ==
    LET at == {i \in 1..Len(logfile) : IsAssistantRecord(logfile[i]) /\ logfile[i].agent = agent_id[a]}
    IN logfile[CHOOSE i \in at : \A j \in at : j <= i]

(* C8: the value Agent.response returns is a TrackedString (a substance,   *)
(* no cause) whose message id is the id under which the utterance, the     *)
(* agent's latest assistant turn, was logged.                              *)
C8_ReturnedSubstance ==
    /\ Returning =>
          LET turn == LatestTurn(Top.agent)
          IN /\ ReturnValue(Top).message_id = turn.message_id
             /\ ReturnValue(Top).s = turn.content
             /\ IsUtteranceRecord(turn)
    /\ \A r \in returned :
          /\ r.value.kind = "tracked" /\ r.value.cause = NoCause
          /\ Logged(r.value.message_id)
          /\ LET rec == logfile[Position(r.value.message_id)]
             IN /\ IsUtteranceRecord(rec)
                /\ rec.agent = agent_id[r.agent]
                /\ rec.content = r.value.s
                /\ ~Has(rec, "substance") /\ ~Has(rec, "cause")

(* An agent with a hook has returned an utterance (records of the hook's   *)
(* agent follow the utterance in the log), and so has a subagent.          *)
C8_Witness ==
    /\ \E r \in returned : r.nhooks >= 1 /\ r.agent = interlocutor
    /\ \E r \in returned : r.agent # interlocutor /\ attrs[r.agent].monitored = 0

(* The assistant record that requested the call a tool record answers.     *)
Requested(p, r) ==
    /\ IsAssistantRecord(logfile[p]) /\ Has(logfile[p], "tool_calls")
    /\ \E k \in 1..Len(logfile[p].tool_calls) : logfile[p].tool_calls[k].id = r.tool_call_id

(* C9, as stated: every tool record of the log has a cause, the string     *)
(* "X.Y" of the id X of the assistant record that requested the call and   *)
(* the call id Y.                                                          *)
C9_CauseIsToolCall ==
    \A i \in 1..Len(logfile) :
        IsToolRecord(logfile[i]) =>
            /\ Has(logfile[i], "cause")
            /\ \E p \in 1..(i - 1) :
                  /\ Requested(p, logfile[i])
                  /\ logfile[i].cause
                         = CauseStr(logfile[p].message_id \o "." \o logfile[i].tool_call_id)

(* C9, as the code has it: a tool record written by Agent.response names   *)
(* its request in the fields tool_call (the id X of an earlier assistant   *)
(* record of the same agent that requested the call) and tool_call_id (Y); *)
(* it has a cause only when the tool returned a StringWithCause (discuss:  *)
(* the list of the ids of the speakers' utterances), never the string      *)
(* "X.Y". The one tool record without tool_call is the read_log exchange a *)
(* hook writes itself, which has no cause.                                 *)
C9_ToolCallFields ==
    \A i \in 1..Len(logfile) :
        IsToolRecord(logfile[i]) =>
            LET r == logfile[i]
            IN IF Has(r, "tool_call")
               THEN /\ Logged(r.tool_call) /\ Position(r.tool_call) < i
                    /\ Requested(Position(r.tool_call), r)
                    /\ logfile[Position(r.tool_call)].agent = r.agent
                    /\ Has(r, "cause") =>
                          /\ r.name = "discuss"
                          /\ r.cause.list
                          /\ r.cause.ids # <<>>
                          /\ \A k \in 1..Len(r.cause.ids) :
                                /\ Logged(r.cause.ids[k])
                                /\ Position(r.cause.ids[k]) < i
                                /\ IsUtteranceRecord(logfile[Position(r.cause.ids[k])])
               ELSE /\ r.tool_call_id = "ephemeral1"
                    /\ ~Has(r, "cause")
                    /\ i > 1 /\ Requested(i - 1, r) /\ logfile[i - 1].agent = r.agent

(* The log holds a tool result with a cause, one without, and a hook's     *)
(* read_log exchange.                                                      *)
C9_Witness ==
    /\ \E i \in 1..Len(logfile) :
          IsToolRecord(logfile[i]) /\ Has(logfile[i], "tool_call") /\ Has(logfile[i], "cause")
    /\ \E i \in 1..Len(logfile) :
          IsToolRecord(logfile[i]) /\ Has(logfile[i], "tool_call") /\ ~Has(logfile[i], "cause")
    /\ \E i \in 1..Len(logfile) :
          IsToolRecord(logfile[i]) /\ ~Has(logfile[i], "tool_call")

(* C10: a tool that raises does not end the run: the exception is turned   *)
(* into a tool result flagged as an error for that call, and the response  *)
(* loop goes on.                                                           *)
C10_ToolErrorSurfaced ==
    /\ mode # "crashed"
    /\ exc.error # "" =>
          \E i \in 1..Len(logfile) :
              /\ IsToolRecord(logfile[i]) /\ Has(logfile[i], "is_error")
              /\ Has(logfile[i], "tool_call")
              /\ logfile[i].tool_call \o "." \o logfile[i].tool_call_id = exc.call

-----------------------------------------------------------------------------
(* Properties of the combine operations *)

Combined(event) == hooked.event = event /\ hooked.combined # <<>>
Out == hooked.outputs
Blocks(o) == o.decision = <<"block">>

(* What an output of a PreToolUse hook decides: its legacy decision,       *)
(* approve as allow and block as deny, if it has one, otherwise its        *)
(* permissionDecision.                                                     *)
Decides(o) ==
    IF o.decision = <<"approve">> THEN <<"allow">>
    ELSE IF o.decision = <<"block">> THEN <<"deny">>
    ELSE o.hookSpecificOutput.permissionDecision

(* C11: each of the three combine operations blocks (denies) exactly when  *)
(* at least one output blocks (denies), and continues exactly when every   *)
(* output continues; for no outputs at all the result continues, does not  *)
(* block or deny and injects no context.                                   *)
C11_CombineBlocksAndContinues ==
    /\ Combined("UserPromptSubmit") =>
          LET c == hooked.combined[1]
          IN /\ Blocks(c.output) <=> \E i \in 1..Len(Out) : Blocks(Out[i])
             /\ c.output.decision \in {<<>>, <<"block">>}
             /\ c.output.continue_ <=> \A i \in 1..Len(Out) : Out[i].continue_
             /\ Out = <<>> =>
                   /\ c.output.continue_ /\ c.output.decision = <<>>
                   /\ c.pre = <<>> /\ c.post = <<>>
                   /\ c.output.hookSpecificOutput.additionalContext = ContextNone
                   /\ c.output.hookSpecificOutput.additionalContextPre = ContextNone
    /\ Combined("PostToolUse") =>
          LET c == hooked.combined[1]
          IN /\ Blocks(c) <=> \E i \in 1..Len(Out) : Blocks(Out[i])
             /\ c.decision \in {<<>>, <<"block">>}
             /\ c.continue_ <=> \A i \in 1..Len(Out) : Out[i].continue_
             /\ Out = <<>> => c.continue_ /\ c.decision = <<>>
    /\ Combined("PreToolUse") =>
          LET c == hooked.combined[1]
          IN /\ c.hookSpecificOutput.permissionDecision = <<"deny">>
                    <=> \E i \in 1..Len(Out) : Decides(Out[i]) = <<"deny">>
             /\ c.decision = <<>>
             /\ c.continue_ <=> \A i \in 1..Len(Out) : Out[i].continue_
             /\ Out = <<>> =>
                   /\ c.continue_
                   /\ c.hookSpecificOutput.permissionDecision = <<>>
                   /\ c.hookSpecificOutput.permissionDecisionReason = <<>>

(* Two outputs have been combined, of which exactly one blocks (denies)    *)
(* and exactly one stops.                                                  *)
C11_Witness ==
    /\ hooked.combined # <<>>
    /\ Len(Out) = 2
    /\ Out[1].continue_ /\ ~Out[2].continue_
    /\ IF hooked.event = "PreToolUse"
       THEN Decides(Out[1]) = <<"deny">> /\ Decides(Out[2]) = <<"allow">>
       ELSE Blocks(Out[1]) /\ ~Blocks(Out[2])

(* The outputs in another order.                                           *)
Orders(n) == {f \in [1..n -> 1..n] : \A i, j \in 1..n : f[i] = f[j] => i = j}
Reordered(outputs, f) == [i \in 1..Len(outputs) |-> outputs[f[i]]]

(* C12: PreToolUseHookOutput.combine returns the permissionDecision deny   *)
(* if an output decides deny, else ask if one decides ask, else allow if   *)
(* one decides allow, else none, where a legacy decision approve counts as *)
(* allow and block as deny; the outputs in any other order give the same   *)
(* permissionDecision.                                                     *)
C12_DenyAskAllow ==
    Combined("PreToolUse") =>
        LET pd == hooked.combined[1].hookSpecificOutput.permissionDecision
            Some(d) == \E i \in 1..Len(Out) : Decides(Out[i]) = d
        IN /\ pd = IF Some(<<"deny">>) THEN <<"deny">>
                   ELSE IF Some(<<"ask">>) THEN <<"ask">>
                   ELSE IF Some(<<"allow">>) THEN <<"allow">>
                   ELSE <<>>
           /\ \A f \in Orders(Len(Out)) :
                 PreToolUseCombine(Reordered(Out, f)).hookSpecificOutput.permissionDecision = pd

(* Two outputs have been combined: a legacy approve over a                 *)
(* permissionDecision ask, and a permissionDecision allow.                 *)
C12_Witness ==
    /\ Combined("PreToolUse")
    /\ Len(Out) = 2
    /\ Out[1].decision = <<"approve">>
    /\ Out[1].hookSpecificOutput.permissionDecision = <<"ask">>
    /\ Out[2].decision = <<>>
    /\ Out[2].hookSpecificOutput.permissionDecision = <<"allow">>

(* The texts an output injects on one side, and the texts the outputs      *)
(* before the i-th one inject.                                             *)
Injected(o, side) == Texts(o.hookSpecificOutput[side])
RECURSIVE InjectedBefore(_, _, _)
InjectedBefore(outputs, i, side) ==
    IF i = 1 THEN 0
    ELSE InjectedBefore(outputs, i - 1, side) + Len(Injected(outputs[i - 1], side))

(* C13: UserPromptSubmitHookOutput.combine puts the context texts of the   *)
(* hooks one after the other, in the order of the hooks, for the prepended *)
(* and for the appended context on their own; the combined field is None   *)
(* for no text, the string for one text in all, and the list of the text   *)
(* blocks for more.                                                        *)
C13_ContextsInOrder ==
    Combined("UserPromptSubmit") =>
        LET c == hooked.combined[1]
            InOrder(all, side) ==
                /\ Len(all) = InjectedBefore(Out, Len(Out) + 1, side)
                /\ \A i \in 1..Len(Out) :
                      \A k \in 1..Len(Injected(Out[i], side)) :
                          all[InjectedBefore(Out, i, side) + k] = Injected(Out[i], side)[k]
            Field(all, field) ==
                /\ Len(all) = 0 => field = ContextNone
                /\ Len(all) = 1 => field = ContextStr(all[1].text)
                /\ Len(all) > 1 => field = ContextList(all)
        IN /\ InOrder(c.pre, "additionalContextPre")
           /\ InOrder(c.post, "additionalContext")
           /\ Field(c.pre, c.output.hookSpecificOutput.additionalContextPre)
           /\ Field(c.post, c.output.hookSpecificOutput.additionalContext)

(* Two hooks have been combined: the first appends "A", the second appends *)
(* the blocks "B" and "C", and only the second prepends, one text.         *)
C13_Witness ==
    /\ Combined("UserPromptSubmit")
    /\ Len(Out) = 2
    /\ hooked.combined[1].post
           = <<TextMessageContent("A"), TextMessageContent("B"), TextMessageContent("C")>>
    /\ Out[1].hookSpecificOutput.additionalContextPre = ContextNone
    /\ hooked.combined[1].output.hookSpecificOutput.additionalContextPre = ContextStr("Q")

-----------------------------------------------------------------------------
(* Properties of the hooks of mini_agent *)

(* The tool results invoke_tool has returned so far: the ones in the       *)
(* transcripts and the ones agentic_loop still holds back.                 *)
InvokeToolResults ==
    SelectSeq(Flatten([e \in 1..Len(envs) |->
                  Flatten([i \in 1..Len(envs[e].transcript) |-> envs[e].transcript[i].content])])
              \o Flatten([l \in 1..Len(loops) |->
                             IF loops[l].pc \in {"invoke_tool", "callback"}
                             THEN Flatten(loops[l].tool_results) ELSE <<>>]),
              IsToolResult)

(* invoke_tool has returned a result for this tool use, an error or not.   *)
Returned(id, is_error) ==
    LET Is(r) == r.type = "tool_result" /\ r.tool_use_id = id /\ r.is_error = is_error
    IN \/ \E e \in 1..Len(envs) : \E i \in 1..Len(envs[e].transcript) :
             /\ envs[e].transcript[i].type = "user"
             /\ \E c \in 1..Len(envs[e].transcript[i].content) :
                   Is(envs[e].transcript[i].content[c])
       \/ \E l \in 1..Len(loops) :
             /\ loops[l].pc \in {"invoke_tool", "callback"}
             /\ \E t \in 1..Len(loops[l].tool_results) :
                   \E c \in 1..Len(loops[l].tool_results[t]) : Is(loops[l].tool_results[t][c])

(* C14: when the PreToolUse hooks deny a tool use, the tool is not called, *)
(* nothing is delegated to a subagent and no PostToolUse hook runs for it; *)
(* there is exactly one tool result with its id, flagged as an error, and  *)
(* invoke_tool returns it with the reason of the denial in its content.    *)
C14_DeniedToolNotInvoked ==
    \A k \in 1..Len(events) :
        events[k].e = "PreToolUse" /\ events[k].deny =>
            LET Of(r) == r.tool_use_id = events[k].id
                results == SelectSeq(InvokeToolResults, Of)
            IN /\ \A j \in 1..Len(events) : events[j].id = events[k].id => j = k
               /\ Len(results) = 1
               /\ results[1].is_error
               /\ events[k].reason # <<>>
               /\ results[1].content
                      = events[k].tool_name \o " operation blocked by hook:\n-"
                            \o events[k].reason[1]

(* The first of two tool uses of one assistant item was denied by a deny   *)
(* and a legacy block, the second one was called, and the results of both  *)
(* are in the transcript.                                                  *)
C14_Witness ==
    /\ mini = "running"
    /\ Len(events) >= 3
    /\ events[1].e = "PreToolUse" /\ events[1].deny
    /\ events[3].e = "call_tool" /\ events[3].id # events[1].id
    /\ Len(envs[1].transcript) >= 3
    /\ envs[1].transcript[3].content[1]
           = ToolResultMessageContent(events[1].id, "Task operation blocked by hook:\n-why\nlegacy", TRUE)
    /\ Len(envs[1].transcript[3].content) >= 2

C16_PromptBlockedOrAppended ==
    [][mini = "input" =>
          LET c == hooked'.combined[1].output
              outs == hooked'.outputs
              n == Len(outs)
              item == UserTranscriptItem(
                          Flatten([i \in 1..n |-> Injected(outs[i], "additionalContextPre")])
                          \o <<TextMessageContent(hooked'.input[1])>>
                          \o Flatten([i \in 1..n |-> Injected(outs[i], "additionalContext")]))
          IN /\ hooked'.event = "UserPromptSubmit"
             /\ IF c.decision = <<"block">> \/ ~c.continue_
                THEN envs' = envs /\ mini' = "input" /\ loops' = <<>>
                ELSE /\ envs'[1].transcript = Append(envs[1].transcript, item)
                     /\ envs'[1].transcript_file
                            = envs[1].transcript_file
                              \o [i \in 1..Len(item.content) |->
                                     [type |-> "user", content |-> item.content[i]]]
                     /\ mini' = "running"]_vars

(* A prompt was refused after an earlier one was answered; and the prompt  *)
(* answered held the contexts of two hooks around it.                      *)
C16_Witness ==
    /\ mini = "input"
    /\ hooked.event = "UserPromptSubmit"
    /\ hooked.combined[1].output.decision = <<"block">>
    /\ Len(envs[1].transcript) = 2
    /\ envs[1].transcript[1].content
           = <<TextMessageContent("P"), TextMessageContent("Q"), TextMessageContent("hello"),
               TextMessageContent("A"), TextMessageContent("B"), TextMessageContent("C")>>

-----------------------------------------------------------------------------
(* Properties of discuss, task and response *)

(* A record of the log is the entry with which this agent harkened this    *)
(* tracked message.                                                        *)
HarkenedAs(r, agent, msg) ==
    /\ r.event_type = "transcript_entry"
    /\ r.agent = agent_id[agent]
    /\ "substance" \in DOMAIN r /\ r.substance = msg.message_id
    /\ r.role = "user" /\ r.content = msg.s
HasHarkened(agent, msg) ==
    /\ \E q \in 1..Len(logfile) : HarkenedAs(logfile[q], agent, msg)
    /\ \E q \in 1..Len(transcript[agent]) :
          transcript[agent][q].role = "user" /\ transcript[agent][q].content = msg.s

(* C17: in a round of discuss that is not the round of a single speaker,   *)
(* the prompt, if there is one, is harkened by every speaker and listener  *)
(* right after it is logged, before any model is called; the speakers are  *)
(* asked one at a time in the order of the list; while speaker i is asked, *)
(* the reply of every earlier speaker j of the round, as '[name]: reply',  *)
(* has been harkened by every participant but speaker j, speaker i among   *)
(* them, and not by speaker j.                                             *)
C17_DiscussRound ==
    \A k \in 1..(Len(stack) - 1) :
        LET f == stack[k]
            sp == attrs[f.agent].speakers
            parts == sp \o attrs[f.agent].listeners
            Sub(n) == DictGet(subagents[f.agent], n)
        IN f.pc = "await_discuss" /\ Len(parts) > 1 =>
              /\ f.di \in 1..Len(sp)
              /\ stack[k + 1].agent = Sub(sp[f.di])
              /\ Len(f.dres) = f.di - 1
              /\ \A p \in 1..Len(logfile) :
                    /\ logfile[p].event_type = "fragment"
                    /\ logfile[p].cause = CauseStr(CurrentToolCall(f))
                    => \A t \in 1..Len(parts) :
                          /\ p + t <= Len(logfile)
                          /\ HarkenedAs(logfile[p + t], Sub(parts[t]),
                                        TrackedString(logfile[p].content, logfile[p].message_id))
              /\ \A j \in 1..(f.di - 1) :
                    /\ \E q \in 1..Len(logfile) :
                          /\ logfile[q].message_id = f.dres[j].message_id
                          /\ logfile[q].agent = agent_id[Sub(sp[j])]
                          /\ logfile[q].role = "assistant"
                          /\ f.dres[j].s = "[" \o sp[j] \o "]: " \o logfile[q].content
                    /\ \A t \in 1..Len(parts) :
                          parts[t] # sp[j] => HasHarkened(Sub(parts[t]), f.dres[j])
                    /\ HasHarkened(Sub(sp[f.di]), f.dres[j])
                    /\ \A q \in 1..Len(logfile) : ~HarkenedAs(logfile[q], Sub(sp[j]), f.dres[j])

(* The second of two speakers is about to be asked, in a round that began  *)
(* with a prompt.                                                          *)
C17_Witness ==
    /\ Len(stack) >= 2
    /\ Top.pc = "completion"
    /\ Caller.pc = "await_discuss"
    /\ Caller.di = 2
    /\ Len(attrs[Caller.agent].speakers) = 2
    /\ \E p \in 1..Len(logfile) :
          /\ logfile[p].event_type = "fragment"
          /\ logfile[p].cause = CauseStr(CurrentToolCall(Caller))

(* The latest assistant record of an agent in a log.                       *)
LatestReply(log, agent) ==
    LET Turns == {q \in 1..Len(log) : /\ log[q].event_type = "transcript_entry"
                                      /\ log[q].agent = agent_id[agent]
                                      /\ log[q].role = "assistant"}
    IN log[CHOOSE q \in Turns : \A q2 \in Turns : q2 <= q]

(* C18: when the last of two or more speakers has replied, discuss returns *)
(* the speakers' replies of the round, each as '[name]: reply', in the     *)
(* order of the speakers and joined by a blank line; the tool record gets  *)
(* as its cause the list of the message ids of those replies, in the same  *)
(* order, and no substance.                                                *)
C18_DiscussReturns ==
    [][(/\ Returning
        /\ Len(stack) > 1
        /\ Caller.pc = "await_discuss"
        /\ Len(attrs[Caller.agent].speakers) >= 2
        /\ Caller.di = Len(attrs[Caller.agent].speakers))
       => LET sp == attrs[Caller.agent].speakers
              reply == [i \in 1..Len(sp) |->
                           LatestReply(logfile', DictGet(subagents[Caller.agent], sp[i]))]
              r == Last(logfile')
          IN /\ r.event_type = "transcript_entry" /\ r.role = "tool" /\ r.name = "discuss"
             /\ r.agent = agent_id[Caller.agent]
             /\ r.tool_call_id = Head(Caller.calls).id
             /\ r.content = Join([i \in 1..Len(sp) |-> "[" \o sp[i] \o "]: " \o reply[i].content],
                                 "\n\n")
             /\ Last(transcript'[Caller.agent]).content = r.content
             /\ r.cause = CauseList([i \in 1..Len(sp) |-> reply[i].message_id])
             /\ "substance" \notin DOMAIN r
             /\ \A i \in 1..Len(sp) : "tool_calls" \notin DOMAIN reply[i]]_vars

(* discuss has returned the replies of two speakers.                       *)
C18_Witness ==
    /\ mode = "running"
    /\ logfile # <<>>
    /\ Last(logfile).event_type = "transcript_entry"
    /\ Last(logfile).role = "tool"
    /\ Last(logfile).name = "discuss"
    /\ "cause" \in DOMAIN Last(logfile)
    /\ Len(Last(logfile).cause.ids) = 2
    /\ Last(logfile).content = "[a]: u\n\n[b]: u"

(* C19: Agent.response without input, for an agent whose transcript has no *)
(* entry other than system entries, fails at its assertion: no model is    *)
(* ever called for such an agent, and the step in which the assertion      *)
(* fails leaves the log, its counter and every transcript as they were.    *)
C19_NothingToRespondTo ==
    [][/\ \A k \in 1..Len(stack') :
             stack'[k].pc = "completion" =>
                 \E i \in 1..Len(transcript'[stack'[k].agent]) :
                     transcript'[stack'[k].agent][i].role # "system"
       /\ mode' = "crashed" /\ exc'.error = "AssertionError" =>
             /\ logfile' = logfile
             /\ next_message_id' = next_message_id
             /\ transcript' = transcript
             /\ \E n \in DOMAIN subagents[exc'.agent] :
                   \A i \in 1..Len(transcript[subagents[exc'.agent][n][2]]) :
                       transcript[subagents[exc'.agent][n][2]][i].role = "system"]_vars

(* discuss without a prompt has asked a subagent that has its system       *)
(* prompt only, and the assertion of response has failed.                  *)
C19_Witness ==
    /\ mode = "crashed"
    /\ exc.error = "AssertionError"
    /\ \E n \in DOMAIN subagents[exc.agent] :
          /\ Len(transcript[subagents[exc.agent][n][2]]) = 1
          /\ transcript[subagents[exc.agent][n][2]][1].role = "system"
    /\ Last(logfile).role = "assistant"
    /\ \E k \in 1..Len(Last(logfile).tool_calls) :
          Last(logfile).message_id \o "." \o Last(logfile).tool_calls[k].id = exc.call

(* A tool has raised: task for a name in use, or discuss in its            *)
(* book-keeping.                                                           *)
TaskRaises == mode' = "crashed" /\ exc'.error = "ValueError" /\ Calling("task")
DiscussRaises == mode' = "crashed" /\ exc'.error \in {"KeyError", "ValueError"} /\ Calling("discuss")

(* C20: task for a name in use, and discuss for a speaker or listener that *)
(* is no subagent or without any speaker, raise with the subagents, the    *)
(* remembered speakers and listeners, every transcript and the log as they *)
(* were before the call.                                                   *)
C20_RaiseChangesNothing ==
    [][TaskRaises \/ DiscussRaises =>
          /\ subagents' = subagents
          /\ attrs' = attrs
          /\ transcript' = transcript
          /\ logfile' = logfile]_vars

(* What does hold: task raises with nothing changed; discuss raises with   *)
(* the subagents, the transcripts and the log unchanged, and with the      *)
(* speakers and listeners of every other agent unchanged.                  *)
C20_RaiseKeepsLogAndAgents ==
    [][/\ TaskRaises => /\ subagents' = subagents
                        /\ attrs' = attrs
                        /\ transcript' = transcript
                        /\ logfile' = logfile
       /\ DiscussRaises => /\ subagents' = subagents
                           /\ transcript' = transcript
                           /\ logfile' = logfile
                           /\ \A a \in DOMAIN attrs : a # Top.agent => attrs'[a] = attrs[a]]_vars

(* discuss has raised a KeyError for a listener after it had replaced the  *)
(* remembered speakers by the ones named in the call.                      *)
C20_SpeakersReplaced ==
    /\ mode = "crashed"
    /\ exc.error = "KeyError"
    /\ attrs[exc.agent].has_speakers
    /\ attrs[exc.agent].speakers = <<"a">>
    /\ ~attrs[exc.agent].has_listeners
    /\ Len(subagents[exc.agent]) = 1

-----------------------------------------------------------------------------
(* Properties of the Session on its own *)

AgentIds == {agent_id[a] : a \in DOMAIN agent_id}
IdsDistinct(ids) ==
    /\ \A a \in DOMAIN ids : ids[a] # "user"
    /\ \A a, b \in DOMAIN ids : a # b => ids[a] # ids[b]
CreatedIn(log) == SelectSeq(log, LAMBDA r : r.event_type = "agent_created")

(* C21: in every step of a session whose agents are created one by one     *)
(* (repeated names, names that normalise to the same id, names that are an *)
(* id generated earlier, creations after Session.load): the agents' ids    *)
(* are pairwise distinct and none is 'user', before and after the step;    *)
(* every agent keeps its id and stays known; and the agent_created records *)
(* of the log carry pairwise distinct ids, all of them known.              *)
C21_AgentIdsUnique ==
    [][/\ IdsDistinct(agent_id) /\ IdsDistinct(agent_id')
       /\ \A a \in DOMAIN agent_id : a \in DOMAIN agent_id' /\ agent_id'[a] = agent_id[a]
       /\ AgentIds \subseteq AgentIds'
       /\ mode' = "input" =>
             LET created == CreatedIn(logfile')
             IN /\ \A i, j \in 1..Len(created) : i # j => created[i].agent # created[j].agent
                /\ \A i \in 1..Len(created) : created[i].agent \in AgentIds']_vars

(* Three agents were created under the names a, a again (its id is a1) and *)
(* a1 (an id generated before), and one under a name that normalises to    *)
(* 'user'.                                                                 *)
C21_Witness ==
    /\ mode = "input"
    /\ nagents = 4
    /\ \E a, b, c \in 2..4 : /\ agent_id[a] = "a1" /\ agent_id[b] = "a11" /\ agent_id[c] = "a"
                              /\ \E i \in 1..Len(logfile) :
                                    /\ logfile[i].event_type = "agent_created"
                                    /\ logfile[i].agent = "a11" /\ logfile[i].name = "a1"

(* The fields the claim names as required, for each kind of event.         *)
RequiredOf(r) ==
    CASE ~Has(r, "event_type") -> {"event_type"}
      [] r.event_type = "transcript_entry" -> {"message_id", "agent", "role", "content"}
      [] r.event_type = "fragment" -> {"message_id", "agent", "content", "cause"}
      [] r.event_type = "agent_created" ->
             {"message_id", "agent", "name", "parent", "language_model", "cause"}
      [] OTHER -> {"unknown event type"}
Malformed(log) == \E i \in 1..Len(log) : ~(RequiredOf(log[i]) \subseteq DOMAIN log[i])

(* C22: Session.load gives no session for a log file that has a record     *)
(* without a field its kind of event requires, or of an unknown kind.      *)
C22_LoadFailsOnMalformed == mode = "input" => ~Malformed(logfile)

(* What holds instead: load raises exactly when a record lacks one of the  *)
(* keys the replay reads (message_id and event_type; for agent_created     *)
(* also agent, name, parent and language_model; for a transcript entry     *)
(* also agent and role), names an unknown agent or is of an unknown kind.  *)
ReadBy(r) ==
    CASE ~Has(r, "event_type") -> {"event_type"}
      [] r.event_type = "transcript_entry" -> {"message_id", "agent", "role"}
      [] r.event_type = "fragment" -> {"message_id"}
      [] r.event_type = "agent_created" ->
             {"message_id", "agent", "name", "parent", "language_model"}
      [] OTHER -> {"unknown event type"}
C22_LoadFailsOnKeysRead ==
    mode \in {"input", "crashed"} /\ nagents = 0 =>
        \E i \in 1..Len(logfile) : ~(ReadBy(logfile[i]) \subseteq DOMAIN logfile[i])

(* A log whose fragment has lost its cause has been loaded.                *)
C22_LoadedWithoutCause ==
    /\ mode = "input"
    /\ \E i \in 1..Len(logfile) :
          logfile[i].event_type = "fragment" /\ ~Has(logfile[i], "cause")

-----------------------------------------------------------------------------
(* Properties of the handlers of delegated work *)

PlanReturned == callback.kind = "plan_callback" /\ callback.pc = "returned"

(* C23: when handle_plan_callback has returned, the plan is accepted only  *)
(* if the human was asked and answered "1"; an accepted plan gives         *)
(* text_on_accept, success and the planning flag false, a rejected one     *)
(* text_on_reject, failure and the planning flag true.                     *)
C23_AcceptedOnlyIfApproved ==
    PlanReturned =>
        /\ callback.is_success => callback.answer = <<"1">>
        /\ callback.is_success =>
              callback.result = <<TextMessageContent(callback.text_on_accept)>> /\ ~in_plan_mode
        /\ ~callback.is_success =>
              callback.result = <<TextMessageContent(callback.text_on_reject)>> /\ in_plan_mode

(* What holds: the result and the flag follow the outcome, and in an       *)
(* interactive session the outcome follows the human's answer.             *)
C23_ResultAndFlag ==
    PlanReturned =>
        /\ callback.interactive => (callback.is_success <=> callback.answer = <<"1">>)
        /\ callback.is_success =>
              callback.result = <<TextMessageContent(callback.text_on_accept)>> /\ ~in_plan_mode
        /\ ~callback.is_success =>
              callback.result = <<TextMessageContent(callback.text_on_reject)>> /\ in_plan_mode

(* A plan was accepted in a session that is not interactive: nobody was    *)
(* asked, and the planning flag, which was set, is cleared.                *)
C23_AcceptedUnasked ==
    /\ PlanReturned
    /\ ~callback.interactive
    /\ callback.is_success /\ callback.answer = <<>>
    /\ ~in_plan_mode

BashRunning == callback.kind = "bash_callback" /\ callback.pc # "returned"
BashReturned == callback.kind = "bash_callback" /\ callback.pc = "returned"

(* C24: once the timeout has passed with the command still running,        *)
(* handle_bash_callback returns in the end.                                *)
C24_AlwaysReturns ==
    (callback.kind = "bash_callback" /\ callback.pc = "grace") ~> BashReturned

(* What holds: terminate is sent at the timeout to a running process and   *)
(* kill only after the grace period to a process still running; the        *)
(* handler goes on only when the process has exited, and what it returns   *)
(* then is a failure whose text is the timeout message followed by stderr  *)
(* and stdout as captured.                                                 *)
C24_TerminateThenKill ==
    [][callback.kind = "bash_callback" =>
          /\ process'.signals # process.signals =>
                /\ process.alive
                /\ \/ callback.pc = "wait" /\ process'.signals = <<"SIGTERM">>
                   \/ callback.pc = "grace" /\ process'.signals = <<"SIGTERM", "SIGKILL">>
          /\ callback'.pc \in {"gather", "returned"} =>
                /\ ~process'.alive
                /\ callback'.exit_code = <<"timeout">> <=> process'.signals # <<>>
          /\ callback'.pc = "returned" /\ process'.signals # <<>> =>
                /\ ~callback'.is_success
                /\ callback'.result = <<TextMessageContent(
                       <<"Command timed out after ", FormatTimeout(callback'.timeout), "s", "\n">>
                       \o callback'.stderr_parts \o <<"\n">> \o callback'.stdout_parts)>>
      ]_vars

(* The shell was killed and has exited, but a descendant holds its pipes:  *)
(* the handler waits for the readers.                                      *)
C24_WaitsForDescendant ==
    /\ callback.kind = "bash_callback"
    /\ callback.pc = "gather"
    /\ process.signals = <<"SIGTERM", "SIGKILL">>
    /\ ~process.alive
    /\ process.holder
    /\ callback.stdout_task = "reading"

(* C25: try_repeatedly, once called, returns in the end, and when it has   *)
(* returned it has raised nothing, it has slept min(2^(k-1), 60) seconds   *)
(* after the k-th failure in a row, each failure was followed by one fresh *)
(* call, and its result is that of the one call that succeeded, the last.  *)
C25_RetriesUntilSuccess ==
    (retrying.pc = "calling") ~>
        /\ retrying.pc = "returned"
        /\ Len(retrying.slept) = retrying.attempt
        /\ \A k \in 1..Len(retrying.slept) :
              retrying.slept[k] = IF 2 ^ (k - 1) <= 60 THEN 2 ^ (k - 1) ELSE 60
        /\ retrying.calls = retrying.attempt + 1
        /\ retrying.result = <<"result" \o ToString(retrying.calls)>>

(* The operation succeeded at the call after failures enough for the cap   *)
(* of 60 seconds to apply twice.                                           *)
C25_Witness ==
    /\ retrying.pc = "returned"
    /\ Len(retrying.slept) >= 8
    /\ retrying.slept[6] = 32
    /\ retrying.slept[7] = 60
    /\ retrying.slept[8] = 60
    /\ retrying.result = <<"result" \o ToString(Len(retrying.slept) + 1)>>

-----------------------------------------------------------------------------
(* Properties of the log file under the viewer *)

(* C26: whatever the viewer has read of the log file ends at a record      *)
(* boundary: after the closing brace of a record or after a newline that   *)
(* follows it, never inside a record.                                      *)
C26_NoTornRecord ==
    watch.running /\ watch.last_position > 0 =>
        disk.visible[watch.last_position] \in {"}", "\n"}

(* What holds: each record occupies exactly one line of the file, the      *)
(* lines between records are blank, and the viewer broadcasts no event     *)
(* that is not a record of the file, nor any record twice.                 *)
C26_OneLinePerRecord ==
    watch.running =>
        LET file == disk.visible \o disk.pending
            lines == SplitLines(file)
        IN /\ \A i \in 1..Len(lines) : lines[i] = <<>> \/ IsJson(lines[i])
           /\ Len(SelectSeq(lines, IsJson)) = Written
           /\ \A i \in 1..Len(watch.broadcast) :
                 /\ InSeq(watch.broadcast[i], lines)
                 /\ \A j \in 1..Len(watch.broadcast) : watch.broadcast[j] = watch.broadcast[i] => j = i

(* Both records are in the file whole and the viewer has read all of it,   *)
(* but it has broadcast only one: the other reached it in two parts.       *)
C26_RecordLost ==
    /\ watch.running
    /\ disk.pending = <<>>
    /\ Written = 2
    /\ watch.last_position = Len(disk.visible)
    /\ Len(watch.broadcast) = 1

-----------------------------------------------------------------------------
(* Properties of the file tools *)

NotReadErrors ==
    {"Error: File has not been read yet.\nRead it first before writing to it.",
     "Error: File has not been read yet. Read it first before writing to it.",
     "Error: file has not been read yet. Read it first before writing to it."}
Writers == {"Write", "Edit", "MultiEdit"}

(* The arguments of the call pass the checks multiedit_impl makes of them  *)
(* before it looks at the file.                                            *)
WellFormed(call) ==
    call.name = "MultiEdit" =>
        /\ call.input # <<>>
        /\ \A i \in 1..Len(call.input) :
              call.input[i].old_string \notin {"", call.input[i].new_string}

(* In this step a tool that writes has returned a failure.                 *)
WriterFails ==
    /\ file_call = NoFileCall
    /\ file_calls' # file_calls
    /\ Last(file_calls').name \in Writers
    /\ ~Last(file_calls').is_success

(* In this step a tool that writes has passed its checks and written.      *)
WriterWrites ==
    /\ file_call = NoFileCall
    /\ file_call' # file_call

(* The file the tool of this step is called on exists and has not been     *)
(* read: it is not known, or it is stale.                                  *)
ExistsUnread(path) ==
    /\ files[path] # <<>>
    /\ path \notin known_content_files \/ path \in stale_content_files

(* C27, as the code has it: in every step, stale_content_files is a subset *)
(* of known_content_files, which only grows; a Write, Edit or MultiEdit on *)
(* a file that exists and is not both known and not stale fails and leaves *)
(* the files and known_content_files as they are, with a 'has not been     *)
(* read yet' error if it is a Write, an Edit or a MultiEdit whose edits    *)
(* are well formed; no tool writes such a file, and none gives that error  *)
(* for another; a Write fails only on a file that exists, and a Write that *)
(* has created a file returns success with the file known.                 *)
C27_WriteNeedsRead ==
    [][/\ stale_content_files \subseteq known_content_files
       /\ stale_content_files' \subseteq known_content_files'
       /\ known_content_files \subseteq known_content_files'
       /\ WriterFails =>
             LET call == Last(file_calls')
             IN /\ files' = files
                /\ known_content_files' = known_content_files
                /\ ExistsUnread(call.path) /\ WellFormed(call) => call.text \in NotReadErrors
                /\ call.text \in NotReadErrors => ExistsUnread(call.path)
                /\ call.name = "Write" => ExistsUnread(call.path)
       /\ WriterWrites => ~ExistsUnread(file_call'.path)
       /\ file_call.pc = "written" /\ file_call' = NoFileCall =>
             /\ Last(file_calls').is_success
             /\ file_call.path \in known_content_files'
      ]_vars

(* C27, as stated: a Write, Edit or MultiEdit that fails on a file that    *)
(* exists and is not both known and not stale gives a 'has not been read   *)
(* yet' error.                                                             *)
C27_NotReadError ==
    [][WriterFails /\ ExistsUnread(Last(file_calls').path)
          => Last(file_calls').text \in NotReadErrors]_vars

(* A file was read, then modified by the user, which the watcher has       *)
(* seen, and the Write that followed failed: not read.                     *)
C27_Witness ==
    /\ Len(file_calls) = 3
    /\ file_calls[1].name = "Read" /\ file_calls[1].is_success
    /\ file_calls[2].name = "user"
    /\ file_calls[3].name = "Write" /\ file_calls[3].text \in NotReadErrors
    /\ stale_content_files = {"f"}
    /\ files["f"] = file_calls[2].input

(* C28: of two calls of Write or Edit on the same file that follow one     *)
(* another, with no call and no modification by anyone else in between,    *)
(* the second does not fail for the file not having been read if the       *)
(* first succeeded.                                                        *)
C28_WriteAfterWrite ==
    \A i \in 1..(Len(file_calls) - 1) :
        LET first == file_calls[i]
            second == file_calls[i + 1]
        IN /\ first.name \in {"Write", "Edit"}
           /\ second.name \in {"Write", "Edit"}
           /\ first.path = second.path
           /\ first.is_success
           => second.text \notin NotReadErrors

(* The agent created a file with Write, and its next Write of that file    *)
(* failed: the event of its own write had marked the file stale.           *)
C28_OwnWriteStale ==
    /\ Len(file_calls) = 2
    /\ file_calls[1].name = "Write" /\ file_calls[1].is_success
    /\ file_calls[2].name = "Write" /\ file_calls[2].text \in NotReadErrors
    /\ observer = <<>>

-----------------------------------------------------------------------------
(* Properties of agentic_loop with the failing calls of the model *)

IsAssistant(item) == item.type = "assistant"
AssistantItems(E) == SumSeq([e \in 1..Len(E) |-> Len(SelectSeq(E[e].transcript, IsAssistant))])
HasToolUse(item) == \E i \in 1..Len(item.content) : IsToolUse(item.content[i])
HasToolResult(item) == \E i \in 1..Len(item.content) : IsToolResult(item.content[i])

(* The loop at work is about to call the model: its transcript ends with a *)
(* user item.                                                              *)
ModelCall == InLoop("acompletion")

(* Where the loop at work started in its transcript: at the last user item *)
(* that is a prompt, not the results of tools.                             *)
LoopStart(tr) ==
    CHOOSE i \in 1..Len(tr) :
        /\ tr[i].type = "user" /\ ~HasToolResult(tr[i])
        /\ \A j \in (i + 1)..Len(tr) : ~(tr[j].type = "user" /\ ~HasToolResult(tr[j]))

(* C29, as the code has it: a call of the model is made on a transcript    *)
(* that ends with a user item; a call that raises appends nothing and is   *)
(* made again; a call that returns appends exactly one assistant item, and *)
(* no assistant item is appended otherwise; the loop returns at the first  *)
(* item without a tool use, at once, with exactly its text blocks, and     *)
(* goes on to the tools of an item that has some.                          *)
C29_OneCallPerItem ==
    [][/\ ModelCall => Last(envs[Inner.env].transcript).type = "user"
       /\ AssistantItems(envs') # AssistantItems(envs) => ModelCall
       /\ ModelCall /\ loops'[Len(loops)].pc = "retry" => envs' = envs
       /\ ModelCall /\ loops'[Len(loops)].pc # "retry" =>
             LET e == Inner.env
                 item == Last(envs'[e].transcript)
             IN /\ AssistantItems(envs') = AssistantItems(envs) + 1
                /\ envs'[e].transcript = Append(envs[e].transcript, item)
                /\ IsAssistant(item)
                /\ IF HasToolUse(item)
                   THEN loops'[Len(loops)].pc = "invoke_tool"
                   ELSE /\ loops'[Len(loops)].pc = "return"
                        /\ loops'[Len(loops)].texts = SelectSeq(item.content, IsText)
       /\ InLoop("return") =>
             LET tr == envs[Inner.env].transcript
             IN /\ IsAssistant(Last(tr)) /\ ~HasToolUse(Last(tr))
                /\ Inner.texts = SelectSeq(Last(tr).content, IsText)
                /\ \A i \in (LoopStart(tr) + 1)..(Len(tr) - 1) :
                      IsAssistant(tr[i]) => HasToolUse(tr[i])
      ]_vars

(* C29, as stated: every call of the model appends one assistant item, so  *)
(* that the calls are as many as the items.                                *)
C29_ExactlyOneCall ==
    [][ModelCall => AssistantItems(envs') = AssistantItems(envs) + 1]_vars

(* The loop of a subagent returns the texts of its second assistant item,  *)
(* the first having asked for a tool.                                      *)
C29_Witness ==
    /\ InLoop("return")
    /\ Len(loops) = 2
    /\ LET tr == envs[Inner.env].transcript
       IN /\ Len(tr) = 4
          /\ HasToolUse(tr[2])
          /\ Inner.texts = SelectSeq(tr[4].content, IsText)
          /\ Inner.texts # <<>>

(* The call of the model has raised and the loop waits for enter, nothing  *)
(* having been appended.                                                   *)
C29_CallRaised ==
    /\ InLoop("retry")
    /\ Last(envs[Inner.env].transcript).type = "user"

(* Hooks that answer continue=false: a PreToolUse hook that otherwise      *)
(* says nothing, and the PostToolUse hooks that stop.                      *)
PreToolUseStop == <<PreToolUseHookOutput(FALSE, << <<>>, <<>> >>, << <<>>, <<>> >>)>>
Stops(outputs, posts) ==
    ~PreToolUseCombine(outputs).continue_ \/ ~PostToolUseCombine(posts).continue_

(* C30: when the hooks of the last tool use of a batch answer              *)
(* continue=false, the results are recorded and the loop does not go on to *)
(* call the model.                                                         *)
C30_StopHaltsLoop ==
    [][\A outputs \in PreToolUse \cup {PreToolUseStop} : \A posts \in PostToolUse :
          /\ Stops(outputs, posts)
          /\ InvokeToolHooks(outputs, posts)
          /\ Len(Inner.tool_results) + 1 = Len(Inner.tool_uses)
          => ~(loops'[Len(loops)].pc = "acompletion")
      ]_vars

(* What holds of such a step: the results of the batch are recorded as one *)
(* user item, and the loop is about to call the model.                     *)
C30_StopIsIgnored ==
    [][\A outputs \in PreToolUse \cup {PreToolUseStop} : \A posts \in PostToolUse :
          /\ Stops(outputs, posts)
          /\ InvokeToolHooks(outputs, posts)
          /\ Len(Inner.tool_results) + 1 = Len(Inner.tool_uses)
          => /\ loops'[Len(loops)].pc = "acompletion"
             /\ mini' = "running"
             /\ Last(envs'[Inner.env].transcript).type = "user"
             /\ HasToolResult(Last(envs'[Inner.env].transcript))
      ]_vars

-----------------------------------------------------------------------------
(* Properties of invoke_tool under a permission decision of 'ask' *)

(* The PreToolUse hooks whose outputs combine to the decision 'ask'.       *)
Asks(outputs) ==
    PreToolUseCombine(outputs).hookSpecificOutput.permissionDecision = <<"ask">>

(* C31: when the merged PreToolUse decision for a tool use is 'ask', the   *)
(* tool is invoked only after the user has approved it: the step in which  *)
(* the hooks answer does not call the tool, the user is asked first.       *)
C31_AskedBeforeInvoked ==
    [][\A outputs \in PreToolUse : \A posts \in PostToolUse :
          /\ Asks(outputs)
          /\ InvokeToolHooks(outputs, posts)
          => ~InSeq(CallTool(ToolUse(Inner)), events')
      ]_vars

(* What holds of such a step: the tool is called at once, nothing is read  *)
(* from the user, and the result recorded for the call id is the tool's,   *)
(* not flagged as an error.                                                *)
C31_AskIsIgnored ==
    [][\A outputs \in PreToolUse : \A posts \in PostToolUse :
          /\ Asks(outputs)
          /\ InvokeToolHooks(outputs, posts)
          => /\ InSeq(CallTool(ToolUse(Inner)), events')
             /\ ~InSeq(CallTool(ToolUse(Inner)), events)
             /\ inputs' = inputs
             /\ mini' = "running"
             /\ loops'[Len(loops)].pc \in {"invoke_tool", "acompletion"}
             /\ \E i \in 1..Len(loops'[Len(loops)].tool_results) :
                   LET r == loops'[Len(loops)].tool_results[i]
                   IN \E k \in 1..Len(r) :
                         r[k] = ToolResultMessageContent(ToolUse(Inner).id, "ok", FALSE)
      ]_vars

-----------------------------------------------------------------------------
(* Properties of the combined reason *)

(* The reason of an output of a PreToolUse hook: the reason that goes with *)
(* what it decides, the legacy one for a legacy decision.                  *)
ReasonOf(o) ==
    IF Truthy(o.decision) THEN o.reason ELSE o.hookSpecificOutput.permissionDecisionReason

(* The reasons, in the order of the outputs, of the outputs picked, None   *)
(* and empty reasons left out, joined by newlines.                         *)
RECURSIVE ReasonsJoined(_, _)
ReasonsJoined(reasons, picked) ==
    IF reasons = <<>> THEN ""
    ELSE LET rest == ReasonsJoined(Tail(reasons), Tail(picked))
         IN IF ~Head(picked) \/ ~Truthy(Head(reasons)) THEN rest
            ELSE IF rest = "" THEN Head(reasons)[1]
            ELSE Head(reasons)[1] \o "\n" \o rest

ReasonText(opt) == IF opt = <<>> THEN "" ELSE opt[1]

(* C32: in each of the three combine operations the combined reason is the *)
(* reasons of the outputs that block (deny), in the order of the outputs,  *)
(* joined by newlines; the reason of an output that does not block (deny)  *)
(* is not part of it.                                                      *)
C32_ReasonsOfBlockingHooks ==
    /\ Combined("UserPromptSubmit") =>
          ReasonText(hooked.combined[1].output.reason)
              = ReasonsJoined([i \in 1..Len(Out) |-> Out[i].reason],
                              [i \in 1..Len(Out) |-> Blocks(Out[i])])
    /\ Combined("PostToolUse") =>
          ReasonText(hooked.combined[1].reason)
              = ReasonsJoined([i \in 1..Len(Out) |-> Out[i].reason],
                              [i \in 1..Len(Out) |-> Blocks(Out[i])])
    /\ Combined("PreToolUse") =>
          ReasonText(hooked.combined[1].hookSpecificOutput.permissionDecisionReason)
              = ReasonsJoined([i \in 1..Len(Out) |-> ReasonOf(Out[i])],
                              [i \in 1..Len(Out) |-> Decides(Out[i]) = <<"deny">>])

(* What holds of the combined reason: for PreToolUse it is the reasons of  *)
(* the outputs that deny, None if they give none; for UserPromptSubmit and *)
(* PostToolUse it is the reasons of all the outputs, blocking or not, and  *)
(* the empty string if they give none.                                     *)
C32_ReasonsOfAllHooks ==
    /\ Combined("UserPromptSubmit") =>
          hooked.combined[1].output.reason
              = <<ReasonsJoined([i \in 1..Len(Out) |-> Out[i].reason],
                                [i \in 1..Len(Out) |-> TRUE])>>
    /\ Combined("PostToolUse") =>
          hooked.combined[1].reason
              = <<ReasonsJoined([i \in 1..Len(Out) |-> Out[i].reason],
                                [i \in 1..Len(Out) |-> TRUE])>>
    /\ Combined("PreToolUse") =>
          LET joined == ReasonsJoined([i \in 1..Len(Out) |-> ReasonOf(Out[i])],
                                      [i \in 1..Len(Out) |-> Decides(Out[i]) = <<"deny">>])
          IN hooked.combined[1].hookSpecificOutput.permissionDecisionReason
                 = IF joined = "" THEN <<>> ELSE <<joined>>

(* Two UserPromptSubmit outputs have been combined, the first with a       *)
(* reason and no decision, the second blocking with a reason: the combined *)
(* reason has both.                                                        *)
C32_ReasonOfNonBlockingHook ==
    /\ Combined("UserPromptSubmit")
    /\ Len(Out) = 2
    /\ ~Blocks(Out[1]) /\ Out[1].reason = <<"fyi">>
    /\ Blocks(Out[2]) /\ Out[2].reason = <<"no">>
    /\ hooked.combined[1].output.reason = <<"fyi\nno">>

-----------------------------------------------------------------------------
(* Properties of the user entries of the log *)

IsUserRecord(r) == IsEntry(r) /\ r.role = "user"

(* The record with this message id lies before position i of the log and   *)
(* has this content.                                                       *)
EarlierWithContent(i, id, content) ==
    \E j \in 1..(i - 1) :
        /\ logfile[j].message_id = id
        /\ Has(logfile[j], "content")
        /\ logfile[j].content = content

(* C33: every role=user transcript entry of the log has a substance, the   *)
(* message id of an earlier record with the same content.                  *)
C33_UserEntriesHaveSubstance ==
    \A i \in 1..Len(logfile) :
        IsUserRecord(logfile[i]) =>
            /\ Has(logfile[i], "substance")
            /\ EarlierWithContent(i, logfile[i].substance, logfile[i].content)

(* What holds of the user entries: an entry with a substance names an      *)
(* earlier record, a fragment with the same content or the utterance of    *)
(* another agent, whose content it has with the speaker's name put before  *)
(* it; an entry without one (and without a cause) is the prompt of a hook, *)
(* harkened by the hook's internal agent (an agent created as a hook), or  *)
(* the note                                                                *)
(* <system>problem</system> of a hook's verdict, harkened by the agent the  *)
(* hook monitors.                                                          *)
C33_UserEntriesTraced ==
    \A i \in 1..Len(logfile) :
        LET r == logfile[i]
        IN IsUserRecord(r) =>
              IF Has(r, "substance")
              THEN \E j \in 1..(i - 1) :
                      /\ logfile[j].message_id = r.substance
                      /\ \/ logfile[j].event_type = "fragment" /\ logfile[j].content = r.content
                         \/ /\ IsUtteranceRecord(logfile[j])
                            /\ logfile[j].agent # r.agent
                            /\ \E c \in 1..(j - 1) :
                                  /\ logfile[c].event_type = "agent_created"
                                  /\ logfile[c].agent = logfile[j].agent
                                  /\ r.content = "[" \o logfile[c].name \o "]: "
                                                     \o logfile[j].content
              ELSE /\ ~Has(r, "cause")
                   /\ \/ \E c \in 1..(i - 1) :
                            /\ logfile[c].event_type = "agent_created"
                            /\ logfile[c].agent = r.agent
                            /\ logfile[c].role = "hook"
                      \/ \E v \in verdicts : \E j \in 1..(i - 1) :
                            /\ v.problem # ""
                            /\ r.content = Note(v.problem)
                            /\ logfile[j].message_id = v.turn
                            /\ logfile[j].agent = r.agent

(* The log holds a user entry without a substance: the note of a hook that *)
(* rejected an utterance.                                                  *)
C33_NoteWithoutSubstance ==
    \E i \in 1..Len(logfile) : \E v \in verdicts :
        /\ IsUserRecord(logfile[i])
        /\ ~Has(logfile[i], "substance")
        /\ v.problem # ""
        /\ logfile[i].content = Note(v.problem)

-----------------------------------------------------------------------------
(* Properties of a discuss round with one speaker *)

(* The only speaker of a round of discuss returns to it.                   *)
SingleSpeakerReturns ==
    /\ Returning
    /\ Len(stack) > 1
    /\ Caller.pc = "await_discuss"
    /\ Len(attrs[Caller.agent].speakers) = 1

(* The result of the discuss call that has just returned: its tool record. *)
DiscussRecord(r, f) ==
    /\ r.event_type = "transcript_entry" /\ r.role = "tool" /\ r.name = "discuss"
    /\ r.agent = agent_id[f.agent]
    /\ r.tool_call_id = Head(f.calls).id

(* C34: when a round of discuss has exactly one speaker, with listeners or *)
(* without, the result is that speaker's response alone, without the       *)
(* prefix '[name]: '.                                                      *)
C34_SingleSpeakerUnprefixed ==
    [][SingleSpeakerReturns
       => LET sp == attrs[Caller.agent].speakers[1]
              reply == LatestReply(logfile', DictGet(subagents[Caller.agent], sp))
              r == Last(logfile')
          IN /\ DiscussRecord(r, Caller)
             /\ r.content = reply.content
             /\ Last(transcript'[Caller.agent]).content = reply.content]_vars

(* What holds of such a round: without listeners the result is the         *)
(* response alone; with a listener it is '[name]: ' and the response, and  *)
(* in both cases its cause is the list of the one message id of the        *)
(* response.                                                               *)
C34_SingleSpeakerWithListeners ==
    [][SingleSpeakerReturns
       => LET sp == attrs[Caller.agent].speakers[1]
              reply == LatestReply(logfile', DictGet(subagents[Caller.agent], sp))
              r == Last(logfile')
          IN /\ DiscussRecord(r, Caller)
             /\ r.content = IF attrs[Caller.agent].listeners = <<>>
                            THEN reply.content
                            ELSE "[" \o sp \o "]: " \o reply.content
             /\ Last(transcript'[Caller.agent]).content = r.content
             /\ r.cause = CauseList(<<reply.message_id>>)]_vars

(* discuss has returned from a round of one speaker and one listener, with *)
(* the prefixed response.                                                  *)
C34_PrefixedForListener ==
    /\ mode = "running"
    /\ logfile # <<>>
    /\ Last(logfile).event_type = "transcript_entry"
    /\ Last(logfile).role = "tool"
    /\ Last(logfile).name = "discuss"
    /\ Len(Last(logfile).cause.ids) = 1
    /\ Last(logfile).content = "[a]: u"
    /\ \E a \in 1..nagents : agent_id[a] = Last(logfile).agent /\ attrs[a].listeners = <<"b">>

-----------------------------------------------------------------------------
(* Properties of the transcript file read back *)

(* The file of an Env holds what append_to_transcript_file has written for *)
(* the items of its transcript, in order.                                  *)
WrittenInOrder(E) ==
    E.transcript_file
        = Flatten([i \in 1..Len(E.transcript) |-> AppendToTranscriptFile(<<>>, E.transcript[i])])

(* C35: the items of a transcript written with append_to_transcript_file   *)
(* in order and read with parse_transcript_file are the transcript again:  *)
(* the same types and content blocks in the same order, toolUseResult      *)
(* unset.                                                                  *)
C35_ReadBackAsWritten ==
    \A e \in 1..Len(envs) :
        WrittenInOrder(envs[e]) =>
            LET parsed == ParseTranscriptFile(envs[e].transcript_file)
            IN /\ parsed.raised = ""
               /\ Items(parsed.result) = envs[e].transcript
               /\ \A i \in 1..Len(parsed.result) :
                     parsed.result[i].type = "user" => parsed.result[i].toolUseResult = <<>>

(* What holds: the file of a transcript that has an assistant item or a    *)
(* tool result is not read back, parse_transcript_file raises on the first *)
(* such line; a transcript of user items with text blocks only is read     *)
(* back as it was written.                                                 *)
C35_ReadBackTextOfUser ==
    \A e \in 1..Len(envs) :
        WrittenInOrder(envs[e]) =>
            LET parsed == ParseTranscriptFile(envs[e].transcript_file)
                tr == envs[e].transcript
                Plain(item) == item.type = "user" /\ \A k \in 1..Len(item.content) : IsText(item.content[k])
            IN IF \A i \in 1..Len(tr) : Plain(tr[i])
               THEN /\ parsed.raised = ""
                    /\ Items(parsed.result) = tr
                    /\ \A i \in 1..Len(parsed.result) : parsed.result[i].toolUseResult = <<>>
               ELSE LET first == CHOOSE i \in 1..Len(tr) :
                                     ~Plain(tr[i]) /\ \A j \in 1..(i - 1) : Plain(tr[j])
                    IN parsed.raised = IF IsText(tr[first].content[1])
                                       THEN "ValidationError" ELSE "AttributeError"

(* mini_agent, started again on the file of a transcript that ends with    *)
(* the answer of the model, has ended with the exception of the parse.     *)
C35_ResumeRaised ==
    /\ mini = "crashed"
    /\ exc.error = "ValidationError"
    /\ Len(envs[1].transcript_file) >= 2
    /\ envs[1].transcript_file[1].type = "user"
    /\ envs[1].transcript_file[2].type = "assistant"

-----------------------------------------------------------------------------
(* Properties of the references between the records of the log *)

(* The ids a record refers to: its substance, the ids of its cause, and    *)
(* its tool_call.                                                          *)
References(r) ==
    (IF Has(r, "substance") THEN {r.substance} ELSE {})
        \cup (IF Has(r, "cause") THEN {r.cause.ids[k] : k \in 1..Len(r.cause.ids)} ELSE {})
        \cup (IF Has(r, "tool_call") THEN {r.tool_call} ELSE {})

(* A reference names the record at position j: by its message id, or by    *)
(* its message id and the id of one of the tool calls it requests, as      *)
(* 'id.tool_call_id'.                                                      *)
Names_(ref, j) ==
    \/ ref = logfile[j].message_id
    \/ /\ Has(logfile[j], "tool_calls")
       /\ \E k \in 1..Len(logfile[j].tool_calls) :
             ref = logfile[j].message_id \o "." \o logfile[j].tool_calls[k].id

(* C36: every message id that the substance, the cause or the tool_call of *)
(* a record of the log refers to, the literal 'user' excepted, is the      *)
(* message id of a record that stands earlier in the log.                  *)
C36_ReferencesEarlier ==
    \A i \in 1..Len(logfile) :
        \A ref \in References(logfile[i]) \ {"user"} :
            \E j \in 1..(i - 1) : Names_(ref, j)

(* The log holds a record with a substance, a record caused by a tool      *)
(* call, a record caused by the utterances of two speakers, and a tool     *)
(* record with its tool_call.                                              *)
C36_Witness ==
    /\ \E i \in 1..Len(logfile) : Has(logfile[i], "substance")
    /\ \E i \in 1..Len(logfile) : \E j \in 1..(i - 1) :
          /\ Has(logfile[i], "cause") /\ ~logfile[i].cause.list
          /\ Has(logfile[j], "tool_calls")
          /\ logfile[i].cause.ids[1] = logfile[j].message_id \o "." \o logfile[j].tool_calls[1].id
    /\ \E i \in 1..Len(logfile) :
          Has(logfile[i], "cause") /\ logfile[i].cause.list /\ Len(logfile[i].cause.ids) = 2
    /\ \E i \in 1..Len(logfile) : Has(logfile[i], "tool_call")

-----------------------------------------------------------------------------
(* Properties of the order of the agent_created records *)

IsCreated(r) == r.event_type = "agent_created"

(* The agent_created record of this agent id stands before position i.     *)
CreatedBefore(id, i) ==
    \E j \in 1..(i - 1) : IsCreated(logfile[j]) /\ logfile[j].agent = id

(* C37: in the log, the agent_created record of an agent stands before     *)
(* every transcript_entry and fragment record that names the agent and     *)
(* before the agent_created record of each of its children; the            *)
(* pseudo-agent 'user' has no such record.                                 *)
C37_CreatedFirst ==
    \A i \in 1..Len(logfile) :
        LET r == logfile[i]
        IN /\ (r.event_type \in {"transcript_entry", "fragment"} /\ r.agent # "user")
                  => CreatedBefore(r.agent, i)
           /\ (IsCreated(r) /\ r.parent # "user") => CreatedBefore(r.parent, i)
           /\ IsCreated(r) => r.agent # "user"

(* The log holds the agent_created record of a child of a child, a         *)
(* transcript entry of that agent and a fragment of its parent.            *)
C37_Witness ==
    \E i, j, k \in 1..Len(logfile) :
        /\ IsCreated(logfile[i]) /\ logfile[i].parent # "user"
        /\ IsCreated(logfile[j]) /\ logfile[j].parent = logfile[i].agent
        /\ IsEntry(logfile[k]) /\ logfile[k].agent = logfile[j].agent
        /\ i < j /\ j < k
        /\ \E q \in 1..Len(logfile) :
              logfile[q].event_type = "fragment" /\ logfile[q].agent = logfile[i].agent

-----------------------------------------------------------------------------
(* Properties of the remembered speakers and listeners *)

(* The names that an agent remembers both as a speaker and as a listener.  *)
Both(at) == {n \in Names : InSeq(n, at.speakers) /\ InSeq(n, at.listeners)}

(* C38: after any sequence of discuss calls, the speakers and the          *)
(* listeners an agent remembers are disjoint, so that every participant    *)
(* harkens the prompt of a round once.                                     *)
C38_SpeakersListenersDisjoint ==
    \A a \in 1..nagents : Both(attrs[a]) = {}

(* What holds: a name remembered in both lists after a step was among the  *)
(* listeners before it; listeners given with a call are stripped of the    *)
(* speakers, listeners remembered from an earlier call are not.            *)
C38_OnlyRememberedListeners ==
    [][\A a \in 1..nagents :
          a \in DOMAIN attrs' =>
              \A n \in Both(attrs'[a]) : InSeq(n, attrs[a].listeners)]_vars

(* The interlocutor remembers "b" as its only speaker and as a listener,   *)
(* and "b" has harkened the prompt of the round twice.                     *)
C38_ListenerSpeaks ==
    /\ mode = "running"
    /\ interlocutor \in 1..nagents
    /\ attrs[interlocutor].speakers = <<"b">>
    /\ attrs[interlocutor].listeners = <<"b">>
    /\ Len(logfile) > 2
    /\ LET r == logfile[Len(logfile)]
           q == logfile[Len(logfile) - 1]
       IN /\ IsEntry(r) /\ IsEntry(q)
          /\ r.role = "user" /\ q.role = "user"
          /\ r.agent = "b" /\ q.agent = "b"
          /\ Has(r, "substance") /\ Has(q, "substance") /\ r.substance = q.substance

-----------------------------------------------------------------------------
(* Properties of handle_bash_callback and the pipes *)

(* C39: the read_stream tasks drain the command's outputs until end of     *)
(* stream, so a command that would exit with code 0 within the timeout is  *)
(* reported as a success with its truncated stdout, then its stderr, and   *)
(* never as a timeout.                                                     *)
C39_ExitZeroIsSuccess ==
    (callback.kind = "bash_callback" /\ callback.pc = "returned" /\ process.code = 0) =>
        /\ callback.exit_code = <<"0">>
        /\ callback.is_success
        /\ callback.result =
               <<TextMessageContent(Truncated(callback.stdout_parts) \o <<"\n">>
                                        \o Truncated(callback.stderr_parts))>>

(* What holds: a read_stream task ends at the end of its stream or with    *)
(* the first chunk read after MAX_OUTPUT has been captured, and the        *)
(* command is reported with its exit code if neither output is longer than *)
(* what the task takes and the pipe holds.                                 *)
C39_ShortOutputIsReported ==
    /\ \A stream \in Streams :
          (callback.kind = "bash_callback" /\ Task(stream) = "done") =>
              \/ ~process.alive /\ process.pipe[stream] = 0
              \/ /\ Len(Parts(stream)) = MaxOutputChunks
                 /\ process.output[stream] - process.todo[stream] - process.pipe[stream]
                        = MaxOutputChunks + 1
    /\ (/\ callback.kind = "bash_callback"
        /\ callback.pc = "returned"
        /\ \A stream \in Streams : process.output[stream] <= MaxOutputChunks + 1 + PipeChunks) =>
           /\ callback.exit_code = <<ToString(process.code)>>
           /\ callback.is_success = (process.code = 0)

(* A command with exit status 0 has been reported as timed out: it was     *)
(* ended by SIGTERM while it waited to write to its stdout, which the      *)
(* read_stream task had stopped reading.                                   *)
C39_TimedOutOnFullPipe ==
    /\ callback.kind = "bash_callback"
    /\ callback.pc = "returned"
    /\ process.code = 0
    /\ callback.exit_code = <<"timeout">>
    /\ ~callback.is_success
    /\ process.signals = <<"SIGTERM">>
    /\ process.todo["stdout"] > 0
    /\ process.pipe["stdout"] = PipeChunks
    /\ Len(callback.stdout_parts) = MaxOutputChunks

-----------------------------------------------------------------------------
(* Properties of the viewer's server and its clients *)

(* The number of times a record has been sent to a client.                 *)
TimesReceived(client, record) ==
    Cardinality({i \in DOMAIN client.received : client.received[i] = record})

(* C40: every record of the log is delivered to every connected client     *)
(* exactly once and in log order. (Stated for what has been delivered: no  *)
(* client is sent a record twice, and what a client has been sent is in    *)
(* the order of the log.)                                                  *)
C40_DeliveredOnceInOrder ==
    \A c \in DOMAIN watch.clients :
        LET received == watch.clients[c].received
        IN /\ \A record \in 1..Len(disk.visible) : TimesReceived(watch.clients[c], record) <= 1
           /\ \A i, j \in DOMAIN received : i < j => received[i] < received[j]

(* What holds: a client that has not gone before is sent the file as it is *)
(* when the client replays it, and then without a gap the records the      *)
(* watcher has read since the client's queue was registered, those already *)
(* replayed included.                                                      *)
C40_ReplayThenBroadcast ==
    \A c \in DOMAIN watch.clients :
        LET received == watch.clients[c].received
        IN \/ watch.clients[c].pc # "stream" /\ received = <<>>
           \/ /\ watch.clients[c].pc # "replay"
              /\ \E k \in 1..Len(disk.visible), j \in 0..Len(disk.visible) :
                    /\ j <= k
                    /\ \E m \in j..watch.last_position :
                          /\ received = SubSeq(disk.visible, 1, k) \o SubSeq(disk.visible, j + 1, m)
                          /\ Connected(watch.clients[c]) =>
                                 watch.clients[c].q = SubSeq(disk.visible, m + 1, watch.last_position)

(* A client that connected before the watcher had read the record written  *)
(* last has been sent that record twice: with the replay of the file, and  *)
(* from its queue.                                                         *)
C40_SentTwice ==
    /\ Len(disk.visible) = 2
    /\ Len(watch.clients) = 1
    /\ watch.clients[1].pc = "stream"
    /\ watch.clients[1].received = <<1, 2, 2>>

(* The record written last lies unread although the watcher has polled:    *)
(* the file's modification time is the one the watcher has seen.           *)
C40_UnreadUntilNextWrite ==
    /\ Len(disk.visible) = MaxRecords + 1
    /\ watch.last_position < Len(disk.visible)
    /\ watch.last_mtime = disk.mtime

====
